---- MODULE Spec2Model ----
(***************************************************************************)
(* greydns: the reconciliation and ownership-arbitration engine.           *)
(*                                                                         *)
(* The controller (cmd/main.go) keeps a record cache, existingRecords, and *)
(* a zone table, zonesToNames.  One goroutine rebuilds the cache from the  *)
(* provider on a timer; the service informer delivers add, update and      *)
(* delete events to the three handlers registered with one                 *)
(* AddEventHandler call, which client-go runs one at a time, in order.     *)
(* A handler is called with the map the global existingRecords refers to   *)
(* at the call; the refresh goroutine replaces the global by a new map, so *)
(* a handler that is running keeps working on the map it was given.        *)
(*                                                                         *)
(* internal/records (HandleAnnotations, HandleDeletions) is present in its *)
(* cf-package form; the provider-interface form the controller calls has   *)
(* the same decision structure and is modelled from it, with the           *)
(* provider's methods taken from internal/providers/cf/main.go.            *)
(* HandleUpdates and the cleanup call of the same-owner branch are not in  *)
(* the sources and are modelled from the specification and the tests.      *)
(***************************************************************************)
EXTENDS Integers, Sequences, FiniteSets, TLC

(* ------------------------------ bounds -------------------------------- *)
\* handler runs (events delivered by the informer)
MaxEvents == 3

(* ----------------------------- vocabulary ----------------------------- *)
Prefix == "[greydns - Do not manually edit]"

\* an annotation key that is not present in the object's annotation map
Absent == "<absent>"
\* the place of a service object the informer has not delivered
NoSvc == [dns |-> "<none>", domain |-> "<none>", zone |-> "<none>"]
NoService == [Namespace |-> "", Name |-> ""]
NoRecord ==
    [ID |-> 0, Name |-> "", Type |-> "", Content |-> "", TTL |-> 0, Comment |-> "",
     ZoneID |-> ""]

Services ==
    { [Namespace |-> "default", Name |-> "svc-a"],
      [Namespace |-> "default", Name |-> "svc-b"] }

DomainNames == {"api.example.com", "www.example.com"}
ZoneAnnotations == {"example.com", "missing.net"}
DnsAnnotations == {"true", "false", Absent}

\* the annotation sets a service object can carry
Snapshots ==
    [dns : {"true"}, domain : DomainNames, zone : ZoneAnnotations] \cup
    [dns : DnsAnnotations \ {"true"}, domain : {"api.example.com"},
     zone : {"example.com"}]

\* meta.Annotations[key]: Go yields "" for a key that is absent
Annotation(meta, key) ==
    IF meta[key] = Absent THEN "" ELSE meta[key]

\* the zones of the account at the backend: name -> id
BackendZones ==
    [z \in {"example.com", "other.org"} |->
        IF z = "example.com" THEN "zone123" ELSE "zone456"]

IngressDestination == "192.168.1.1"

\* records the backend can hold before the controller starts: two a former
\* run created for svc-a (the second under a domain it has since left), one
\* made by hand, one of a service that is gone
InitialRecordA ==
    [ID |-> 1, Name |-> "api.example.com", Type |-> "A", Content |-> "192.168.1.1",
     TTL |-> 300, Comment |-> Prefix \o "default/svc-a", Zone |-> "zone123"]
InitialRecordB ==
    [ID |-> 2, Name |-> "manual.other.org", Type |-> "A", Content |-> "10.9.9.9",
     TTL |-> 60, Comment |-> "managed by hand", Zone |-> "zone456"]
InitialRecordC ==
    [ID |-> 3, Name |-> "old.other.org", Type |-> "A", Content |-> "192.168.1.1",
     TTL |-> 300, Comment |-> Prefix \o "legacy/gone", Zone |-> "zone456"]
InitialRecordD ==
    [ID |-> 4, Name |-> "old.example.com", Type |-> "A", Content |-> "192.168.1.1",
     TTL |-> 300, Comment |-> Prefix \o "default/svc-a", Zone |-> "zone123"]
InitialRecords == {InitialRecordA, InitialRecordB, InitialRecordC, InitialRecordD}
InitialBackends == {InitialRecords, {InitialRecordB, InitialRecordC}}
FirstFreeID == Cardinality(InitialRecords) + 1

EmptyMap == [k \in {} |-> NoRecord]

\* a faulty delete(map, key) that leaves the key in place
Remove_Nothing(m, k) == m

\* delete(map, key); map[key] = value
Remove(m, k) == [x \in DOMAIN m \ {k} |-> m[x]]
Put(m, k, v) == [x \in DOMAIN m \cup {k} |-> IF x = k THEN v ELSE m[x]]
\* for name, record := range b { a[name] = record }
Merge(a, b) == [x \in DOMAIN a \cup DOMAIN b |-> IF x \in DOMAIN b THEN b[x] ELSE a[x]]

VARIABLES
    config,           \* cfg.ConfigMap.Data
    alive,            \* FALSE once log.Fatal ended the process
    svc,              \* the service objects as the informer last delivered them
    provRecords,      \* the records held by the backend
    nextID,           \* the next record id the backend hands out
    zonesToNames,     \* the global zone table, name -> id
    existingRecords,  \* the map the global existingRecords refers to
    hpc,              \* "idle", or "called": a handler has its arguments
    hev,              \* the event of the handler that is running
    hdetached,        \* the running handler's map is no longer the global one
    hmap,             \* that map, once detached
    ractive,          \* RefreshRecordsCache is running
    rtodo,            \* zone names it still has to list
    racc,             \* its newExistingRecords
    nEvents,          \* events the informer has delivered
    last,             \* what the handler run that just ended was given and did
    rlast,            \* what the refresh step just taken did
    provZones,        \* the zones the backend holds now, name -> id
    unit              \* a start-up or provider function applied on its own

vars == <<config, alive, svc, provRecords, nextID, zonesToNames, existingRecords,
          hpc, hev, hdetached, hmap, ractive, rtodo, racc, nEvents, last, rlast,
          provZones, unit>>

(* ------------------------- ownership tag ------------------------------ *)
\* "[greydns - Do not manually edit]" + meta.Namespace + "/" + meta.Name
OwnerTag(namespace, name) == Prefix \o namespace \o "/" \o name

\* faulty ownership tests the properties must tell from the real one: one that
\* accepts every comment, one that accepts every comment with the prefix
OwnerMatches_Always(comment, namespace, name) == TRUE
OwnerMatches_Prefix(comment, namespace, name) ==
    /\ Len(comment) >= Len(Prefix)
    /\ SubSeq(comment, 1, Len(Prefix)) = Prefix

\* record.Comment != tag is the handlers' ownership test
OwnerMatches(comment, namespace, name) == comment = OwnerTag(namespace, name)

\* commentPattern ^\[greydns - Do not manually edit].*$
CommentPatternMatch(comment) ==
    /\ Len(comment) >= Len(Prefix)
    /\ SubSeq(comment, 1, Len(Prefix)) = Prefix

(* ---------------------------- configuration --------------------------- *)
Digits == "0123456789"
DigitValue(c) == CHOOSE i \in 0..9 : SubSeq(Digits, i + 1, i + 1) = c
IsDigit(c) == \E i \in 1..10 : SubSeq(Digits, i, i) = c

RECURSIVE DecimalValue(_)
DecimalValue(s) ==
    IF Len(s) = 0 THEN 0
    ELSE 10 * DecimalValue(SubSeq(s, 1, Len(s) - 1)) + DigitValue(SubSeq(s, Len(s), Len(s)))

\* strconv.Atoi on the unsigned decimal strings the configuration uses
Atoi(s) ==
    IF Len(s) > 0 /\ \A i \in 1..Len(s) : IsDigit(SubSeq(s, i, i))
    THEN [ok |-> TRUE, value |-> DecimalValue(s)]
    ELSE [ok |-> FALSE, value |-> 0]

\* the configuration of the tests: record-ttl "300", record-type "A"
TestConfig ==
    [k \in {"record-ttl", "record-type"} |-> IF k = "record-ttl" THEN "300" ELSE "A"]

\* a configmap whose record-ttl is not an integer
UnparseableTTLConfig == [TestConfig EXCEPT !["record-ttl"] = "5m"]

\* cfg.ConfigMap.Data as LoadConfigMap may have read it
ConfigMaps == {TestConfig, UnparseableTTLConfig}

(* ------------------------------ provider ------------------------------ *)
\* the provider calls a handler run makes, as the tests' mock records them
CallRecord(op, id, name, type, content, ttl, comment, zoneID, namespace, serviceName, ok) ==
    [op |-> op, RecordID |-> id, Name |-> name, Type |-> type, Content |-> content,
     TTL |-> ttl, Comment |-> comment, ZoneID |-> zoneID, Namespace |-> namespace,
     ServiceName |-> serviceName, ok |-> ok]
ZoneCall(zoneName, ok) ==
    CallRecord("checkZoneExists", 0, zoneName, "", "", 0, "", "", "", "", ok)
CreateCall(params, ok) ==
    CallRecord("createRecord", 0, params.Name, params.Type, params.Content, params.TTL,
               params.Comment, params.ZoneID, "", "", ok)
UpdateCall(params, ok) ==
    CallRecord("updateRecord", params.RecordID, params.Name, params.Type, params.Content,
               params.TTL, params.Comment, params.ZoneID, "", "", ok)
DeleteCall(recordID, zoneID, ok) ==
    CallRecord("deleteRecord", recordID, "", "", "", 0, "", zoneID, "", "", ok)
CleanupCall(namespace, serviceName, zoneID, currentDomain, ok) ==
    CallRecord("cleanupRecords", 0, currentDomain, "", "", 0, "", zoneID, namespace,
               serviceName, ok)

\* Provider.convertToGenericRecord: the zone id is not carried over
ConvertToGenericRecord(cfRecord) ==
    [ID |-> cfRecord.ID, Name |-> cfRecord.Name, Type |-> cfRecord.Type,
     Content |-> cfRecord.Content, TTL |-> cfRecord.TTL,
     Comment |-> cfRecord.Comment, ZoneID |-> ""]

\* Provider.GetZone: Zones.Get answers, or fails with a backend error
GetZone(zoneID) ==
    {[ok |-> FALSE, ID |-> "", Name |-> ""]} \cup
    {[ok |-> TRUE, ID |-> zoneID, Name |-> z] :
        z \in {n \in DOMAIN provZones : provZones[n] = zoneID}}

\* a faulty zone check that answers for names the table does not hold
CheckZoneExists_AnyName(zoneName, zones) ==
    {[ok |-> TRUE, ID |-> "zone123", Name |-> zoneName]}

\* Provider.CheckZoneExists: a table lookup, then GetZone
CheckZoneExists(zoneName, zones) ==
    IF zoneName \notin DOMAIN zones
    THEN {[ok |-> FALSE, ID |-> "", Name |-> ""]}
    ELSE GetZone(zones[zoneName])

\* a faulty create that hands every record type to the backend
CreateRecord_AnyType(prov, nid, params) ==
    {[ok |-> FALSE, prov |-> prov, nid |-> nid, rec |-> NoRecord, backend |-> 1,
      err |-> "Failed to create record"]} \cup
    {[ok |-> TRUE, prov |-> prov \cup {r}, nid |-> nid + 1,
      rec |-> ConvertToGenericRecord(r), backend |-> 1, err |-> ""] :
        r \in {[ID |-> nid, Name |-> params.Name, Type |-> params.Type,
                Content |-> params.Content, TTL |-> params.TTL,
                Comment |-> params.Comment, Zone |-> params.ZoneID]}}

\* Provider.CreateRecord: unsupported types fail before the backend is called;
\* Records.New fails with a backend error or stores the record under a new id.
\* backend counts the calls made on the client, err is the provider error's
\* message.
CreateRecord(prov, nid, params) ==
    IF params.Type \notin {"A", "CNAME"}
    THEN {[ok |-> FALSE, prov |-> prov, nid |-> nid, rec |-> NoRecord, backend |-> 0,
           err |-> "Invalid record type: " \o params.Type]}
    ELSE {[ok |-> FALSE, prov |-> prov, nid |-> nid, rec |-> NoRecord, backend |-> 1,
           err |-> "Failed to create record"]} \cup
         {[ok |-> TRUE, prov |-> prov \cup {r}, nid |-> nid + 1,
           rec |-> ConvertToGenericRecord(r), backend |-> 1, err |-> ""] :
            r \in {[ID |-> nid, Name |-> params.Name, Type |-> params.Type,
                    Content |-> params.Content, TTL |-> params.TTL,
                    Comment |-> params.Comment, Zone |-> params.ZoneID]}}

\* Provider.UpdateRecord: Records.Update on the record with that id in that zone
UpdateRecord(prov, params) ==
    IF params.Type \notin {"A", "CNAME"}
    THEN {[ok |-> FALSE, prov |-> prov, rec |-> NoRecord, backend |-> 0,
           err |-> "Invalid record type: " \o params.Type]}
    ELSE {[ok |-> FALSE, prov |-> prov, rec |-> NoRecord, backend |-> 1,
           err |-> "Failed to update record"]} \cup
         {[ok |-> TRUE, backend |-> 1, err |-> "",
           prov |-> (prov \ {old}) \cup
                    {[ID |-> old.ID, Name |-> params.Name, Type |-> params.Type,
                      Content |-> params.Content, TTL |-> params.TTL,
                      Comment |-> params.Comment, Zone |-> old.Zone]},
           rec |-> ConvertToGenericRecord(
                    [ID |-> old.ID, Name |-> params.Name, Type |-> params.Type,
                     Content |-> params.Content, TTL |-> params.TTL,
                     Comment |-> params.Comment, Zone |-> old.Zone])] :
            old \in {r \in prov : r.ID = params.RecordID /\ r.Zone = params.ZoneID}}

\* Provider.DeleteRecord: Records.Delete on the record with that id in that zone
DeleteRecord(prov, recordID, zoneID) ==
    {[ok |-> FALSE, prov |-> prov]} \cup
    {[ok |-> TRUE, prov |-> prov \ {r}] :
        r \in {x \in prov : x.ID = recordID /\ x.Zone = zoneID}}

\* a faulty listing that keeps every record of the zone, whatever its comment
GetRecords_Unfiltered(prov, zoneID) ==
    LET tagged == {r \in prov : r.Zone = zoneID}
        names == {r.Name : r \in tagged}
    IN  {[ok |-> FALSE, records |-> EmptyMap]} \cup
        {[ok |-> TRUE, records |-> [n \in names |-> ConvertToGenericRecord(f[n])]] :
            f \in {g \in [names -> tagged] : \A n \in names : g[n].Name = n}}

\* Provider.GetRecords: the zone's records whose comment matches the pattern,
\* keyed by name (of several records of one name the one listed last stays);
\* [ok |-> FALSE] is the listing that failed
GetRecords(prov, zoneID) ==
    LET tagged == {r \in prov : r.Zone = zoneID /\ CommentPatternMatch(r.Comment)}
        names == {r.Name : r \in tagged}
    IN  {[ok |-> FALSE, records |-> EmptyMap]} \cup
        {[ok |-> TRUE, records |-> [n \in names |-> ConvertToGenericRecord(f[n])]] :
            f \in {g \in [names -> tagged] : \A n \in names : g[n].Name = n}}

\* Provider.RefreshRecordsCache, run to its end without interleaving: the maps
\* it can return (zones are ranged over in any order), or none when a listing
\* failed.  The start-up refresh of main uses it.
RECURSIVE RefreshFrom(_, _, _, _)
RefreshFrom(prov, zones, todo, acc) ==
    IF todo = {} THEN {acc}
    ELSE UNION { UNION { IF g.ok
                         THEN RefreshFrom(prov, zones, todo \ {z}, Merge(acc, g.records))
                         ELSE {}
                         : g \in GetRecords(prov, zones[z]) }
                 : z \in todo }
RefreshRecordsCache(prov, zones) == RefreshFrom(prov, zones, DOMAIN zones, EmptyMap)

\* a faulty cleanup that deletes nothing
CleanupRecords_Nothing(m, prov, namespace, serviceName, zoneID, currentDomain) ==
    {[map |-> m, prov |-> prov, calls |-> <<>>, err |-> FALSE]}

\* a faulty cleanup that takes every comment beginning with the service's tag
\* for the service's
RECURSIVE CleanupRecords_PrefixMatch(_, _, _, _, _, _)
CleanupRecords_PrefixMatch(m, prov, namespace, serviceName, zoneID, currentDomain) ==
    LET expectedComment == Prefix \o namespace \o "/" \o serviceName
        stale == {k \in DOMAIN m :
                    /\ Len(m[k].Comment) >= Len(expectedComment)
                    /\ SubSeq(m[k].Comment, 1, Len(expectedComment)) = expectedComment
                    /\ m[k].Name # currentDomain}
    IN  IF stale = {}
        THEN {[map |-> m, prov |-> prov, calls |-> <<>>, err |-> FALSE]}
        ELSE UNION { UNION {
                IF d.ok
                THEN {[o EXCEPT !.calls = <<DeleteCall(m[k].ID, zoneID, TRUE)>> \o @] :
                        o \in CleanupRecords_PrefixMatch(Remove(m, m[k].Name), d.prov,
                                                         namespace, serviceName, zoneID,
                                                         currentDomain)}
                ELSE {[map |-> m, prov |-> prov,
                       calls |-> <<DeleteCall(m[k].ID, zoneID, FALSE)>>, err |-> TRUE]}
                : d \in DeleteRecord(prov, m[k].ID, zoneID) }
              : k \in stale }

\* Provider.CleanupRecords: every cached record with the service's comment and
\* another name is deleted at the backend and then from the map; the first
\* failing delete ends the pass with the error
RECURSIVE CleanupRecords(_, _, _, _, _, _)
CleanupRecords(m, prov, namespace, serviceName, zoneID, currentDomain) ==
    LET expectedComment == Prefix \o namespace \o "/" \o serviceName
        stale == {k \in DOMAIN m :
                    m[k].Comment = expectedComment /\ m[k].Name # currentDomain}
    IN  IF stale = {}
        THEN {[map |-> m, prov |-> prov, calls |-> <<>>, err |-> FALSE]}
        ELSE UNION { UNION {
                IF d.ok
                THEN {[o EXCEPT !.calls = <<DeleteCall(m[k].ID, zoneID, TRUE)>> \o @] :
                        o \in CleanupRecords(Remove(m, m[k].Name), d.prov, namespace,
                                             serviceName, zoneID, currentDomain)}
                ELSE {[map |-> m, prov |-> prov,
                       calls |-> <<DeleteCall(m[k].ID, zoneID, FALSE)>>, err |-> TRUE]}
                : d \in DeleteRecord(prov, m[k].ID, zoneID) }
              : k \in stale }

(* ------------------------------ handlers ------------------------------ *)
\* a faulty gate: everything but the literal "false" enables
DNSEnabled_NotFalse(annotations) == Annotation(annotations, "dns") # "false"

\* enabled := meta.Annotations["greydns.io/dns"]; if enabled == "true"
DNSEnabled(annotations) == Annotation(annotations, "dns") = "true"

\* A handler run is a set of outcomes: the map it was given as it leaves it,
\* the backend's records, the calls made on the provider in order, the
\* DuplicateDomain events recorded, and whether log.Fatal ended the process.
Outcome(m, prov, nid, calls, notes, fatal) ==
    [map |-> m, prov |-> prov, nid |-> nid, calls |-> calls, notes |-> notes,
     fatal |-> fatal]

Service(r, annotations) ==
    [Namespace |-> r.Namespace, Name |-> r.Name, Annotations |-> annotations]

\* faulty parameters whose comment is the bare prefix, naming no service
CreateParams_NoOwner(cfg, service, zoneID, ttl) ==
    [Name |-> Annotation(service.Annotations, "domain"),
     Type |-> cfg["record-type"],
     Content |-> IngressDestination,
     TTL |-> ttl,
     Comment |-> Prefix,
     ZoneID |-> zoneID]

\* the parameters of the create call: name from the domain annotation, content
\* the ingress destination, ttl and type from the configuration, comment the
\* service's tag, zone the resolved zone's id
CreateParams(cfg, service, zoneID, ttl) ==
    [Name |-> Annotation(service.Annotations, "domain"),
     Type |-> cfg["record-type"],
     Content |-> IngressDestination,
     TTL |-> ttl,
     Comment |-> OwnerTag(service.Namespace, service.Name),
     ZoneID |-> zoneID]

\* a faulty same-owner branch that only logs that the record exists
SameOwnerCleanup_LogOnly(m, prov, nid, service, zoneID, before) ==
    {Outcome(m, prov, nid, before, 0, FALSE)}

\* HandleAnnotations, record present and owned by the service: the cleanup of
\* the service's records under other names, its error only logged
SameOwnerCleanup(m, prov, nid, service, zoneID, before) ==
    LET domain == Annotation(service.Annotations, "domain")
    IN  {Outcome(c.map, c.prov, nid,
                 before \o <<CleanupCall(service.Namespace, service.Name, zoneID,
                                         domain, ~c.err)>> \o c.calls,
                 0, FALSE) :
            c \in CleanupRecords(m, prov, service.Namespace, service.Name, zoneID, domain)}

\* a faulty handler that caches the record it asked for although the create
\* call failed
ReconcileRecord_InsertOnFailure(m, prov, nid, cfg, service, zoneID, before) ==
    LET domain == Annotation(service.Annotations, "domain")
        ttl == Atoi(cfg["record-ttl"])
        params == CreateParams(cfg, service, zoneID, ttl.value)
    IN  IF domain \notin DOMAIN m
        THEN IF ~ttl.ok
             THEN {Outcome(m, prov, nid, before, 0, TRUE)}
             ELSE {IF c.ok
                   THEN Outcome(Put(m, domain, c.rec), c.prov, c.nid,
                                before \o <<CreateCall(params, TRUE)>>, 0, FALSE)
                   ELSE Outcome(Put(m, domain, [NoRecord EXCEPT !.Name = domain]),
                                prov, nid,
                                before \o <<CreateCall(params, FALSE)>>, 0, FALSE) :
                      c \in CreateRecord(prov, nid, params)}
        ELSE IF ~OwnerMatches(m[domain].Comment, service.Namespace, service.Name)
             THEN {Outcome(m, prov, nid, before, 1, FALSE)}
             ELSE SameOwnerCleanup(m, prov, nid, service, zoneID, before)

\* HandleAnnotations after the zone was resolved
ReconcileRecord(m, prov, nid, cfg, service, zoneID, before) ==
    LET domain == Annotation(service.Annotations, "domain")
        ttl == Atoi(cfg["record-ttl"])
        params == CreateParams(cfg, service, zoneID, ttl.value)
    IN  IF domain \notin DOMAIN m
        THEN IF ~ttl.ok
             THEN {Outcome(m, prov, nid, before, 0, TRUE)}
             ELSE {IF c.ok
                   THEN Outcome(Put(m, domain, c.rec), c.prov, c.nid,
                                before \o <<CreateCall(params, TRUE)>>, 0, FALSE)
                   ELSE Outcome(m, prov, nid,
                                before \o <<CreateCall(params, FALSE)>>, 0, FALSE) :
                      c \in CreateRecord(prov, nid, params)}
        ELSE IF ~OwnerMatches(m[domain].Comment, service.Namespace, service.Name)
             THEN {Outcome(m, prov, nid, before, 1, FALSE)}
             ELSE SameOwnerCleanup(m, prov, nid, service, zoneID, before)

\* a faulty handler that ends the process when the zone check fails
HandleAnnotations_FatalZoneError(m, prov, nid, zones, cfg, service) ==
    IF ~DNSEnabled(service.Annotations)
    THEN {Outcome(m, prov, nid, <<>>, 0, FALSE)}
    ELSE LET zoneName == Annotation(service.Annotations, "zone")
         IN  UNION { IF ~zone.ok
                     THEN {Outcome(m, prov, nid, <<ZoneCall(zoneName, FALSE)>>, 0, TRUE)}
                     ELSE ReconcileRecord(m, prov, nid, cfg, service, zone.ID,
                                          <<ZoneCall(zoneName, TRUE)>>)
                     : zone \in CheckZoneExists(zoneName, zones) }

\* HandleAnnotations: the enabled gate, the zone check, then the record
HandleAnnotations(m, prov, nid, zones, cfg, service) ==
    IF ~DNSEnabled(service.Annotations)
    THEN {Outcome(m, prov, nid, <<>>, 0, FALSE)}
    ELSE LET zoneName == Annotation(service.Annotations, "zone")
         IN  UNION { IF ~zone.ok
                     THEN {Outcome(m, prov, nid, <<ZoneCall(zoneName, FALSE)>>, 0, FALSE)}
                     ELSE ReconcileRecord(m, prov, nid, cfg, service, zone.ID,
                                          <<ZoneCall(zoneName, TRUE)>>)
                     : zone \in CheckZoneExists(zoneName, zones) }

\* a faulty delete handler that evicts the entry although the delete failed
HandleDeletions_EvictOnFailure(m, prov, nid, zones, service) ==
    IF ~DNSEnabled(service.Annotations)
    THEN {Outcome(m, prov, nid, <<>>, 0, FALSE)}
    ELSE LET zoneName == Annotation(service.Annotations, "zone")
             domain == Annotation(service.Annotations, "domain")
         IN  UNION {
               IF ~zone.ok
               THEN {Outcome(m, prov, nid, <<ZoneCall(zoneName, FALSE)>>, 0, FALSE)}
               ELSE IF domain \notin DOMAIN m
               THEN {Outcome(m, prov, nid, <<ZoneCall(zoneName, TRUE)>>, 0, FALSE)}
               ELSE IF ~OwnerMatches(m[domain].Comment, service.Namespace, service.Name)
               THEN {Outcome(m, prov, nid, <<ZoneCall(zoneName, TRUE)>>, 0, FALSE)}
               ELSE {IF d.ok
                     THEN Outcome(Remove(m, domain), d.prov, nid,
                                  <<ZoneCall(zoneName, TRUE),
                                    DeleteCall(m[domain].ID, zone.ID, TRUE)>>, 0, FALSE)
                     ELSE Outcome(Remove(m, domain), prov, nid,
                                  <<ZoneCall(zoneName, TRUE),
                                    DeleteCall(m[domain].ID, zone.ID, FALSE)>>, 0, FALSE) :
                        d \in DeleteRecord(prov, m[domain].ID, zone.ID)}
               : zone \in CheckZoneExists(zoneName, zones) }

HandleDeletions(m, prov, nid, zones, service) ==
    IF ~DNSEnabled(service.Annotations)
    THEN {Outcome(m, prov, nid, <<>>, 0, FALSE)}
    ELSE LET zoneName == Annotation(service.Annotations, "zone")
             domain == Annotation(service.Annotations, "domain")
         IN  UNION {
               IF ~zone.ok
               THEN {Outcome(m, prov, nid, <<ZoneCall(zoneName, FALSE)>>, 0, FALSE)}
               ELSE IF domain \notin DOMAIN m
               THEN {Outcome(m, prov, nid, <<ZoneCall(zoneName, TRUE)>>, 0, FALSE)}
               ELSE IF ~OwnerMatches(m[domain].Comment, service.Namespace, service.Name)
               THEN {Outcome(m, prov, nid, <<ZoneCall(zoneName, TRUE)>>, 0, FALSE)}
               ELSE {IF d.ok
                     THEN Outcome(Remove(m, domain), d.prov, nid,
                                  <<ZoneCall(zoneName, TRUE),
                                    DeleteCall(m[domain].ID, zone.ID, TRUE)>>, 0, FALSE)
                     ELSE Outcome(m, prov, nid,
                                  <<ZoneCall(zoneName, TRUE),
                                    DeleteCall(m[domain].ID, zone.ID, FALSE)>>, 0, FALSE) :
                        d \in DeleteRecord(prov, m[domain].ID, zone.ID)}
               : zone \in CheckZoneExists(zoneName, zones) }

\* a faulty rename that moves the cache entry although the update call failed
UpdateOwned_MoveOnFailure(m, prov, nid, cfg, service, oldDomain, zoneID, before) ==
    LET domain == Annotation(service.Annotations, "domain")
        ttl == Atoi(cfg["record-ttl"])
        params == [RecordID |-> m[oldDomain].ID] @@ CreateParams(cfg, service, zoneID, ttl.value)
    IN  IF ~ttl.ok
        THEN {Outcome(m, prov, nid, before, 0, TRUE)}
        ELSE UNION {
               IF ~u.ok
               THEN {Outcome(Remove(Put(m, domain, m[oldDomain]), oldDomain), prov, nid,
                             before \o <<UpdateCall(params, FALSE)>>, 0, FALSE)}
               ELSE SameOwnerCleanup(
                        IF domain # oldDomain
                        THEN Remove(Put(m, domain, u.rec), oldDomain)
                        ELSE Put(m, domain, u.rec),
                        u.prov, nid, service, zoneID,
                        before \o <<UpdateCall(params, TRUE)>>)
               : u \in UpdateRecord(prov, params) }

\* HandleUpdates: a record of the service under the old domain is renamed to
\* the new domain with updateRecord, the cache entry moved on success, and the
\* cleanup pass run; without such a record, or when the new domain is already
\* cached, the event is reconciled as a create event of the new object
UpdateOwned(m, prov, nid, cfg, service, oldDomain, zoneID, before) ==
    LET domain == Annotation(service.Annotations, "domain")
        ttl == Atoi(cfg["record-ttl"])
        params == [RecordID |-> m[oldDomain].ID] @@ CreateParams(cfg, service, zoneID, ttl.value)
    IN  IF ~ttl.ok
        THEN {Outcome(m, prov, nid, before, 0, TRUE)}
        ELSE UNION {
               IF ~u.ok
               THEN {Outcome(m, prov, nid, before \o <<UpdateCall(params, FALSE)>>, 0, FALSE)}
               ELSE SameOwnerCleanup(
                        IF domain # oldDomain
                        THEN Remove(Put(m, domain, u.rec), oldDomain)
                        ELSE Put(m, domain, u.rec),
                        u.prov, nid, service, zoneID,
                        before \o <<UpdateCall(params, TRUE)>>)
               : u \in UpdateRecord(prov, params) }

\* a faulty update handler that renames the service's record to the new domain
\* without looking at what the cache holds under that domain
HandleUpdates_RenameOverExisting(m, prov, nid, zones, cfg, service, oldService) ==
    IF ~DNSEnabled(service.Annotations)
    THEN {Outcome(m, prov, nid, <<>>, 0, FALSE)}
    ELSE LET zoneName == Annotation(service.Annotations, "zone")
             oldDomain == Annotation(oldService.Annotations, "domain")
             owned == /\ oldDomain \in DOMAIN m
                      /\ OwnerMatches(m[oldDomain].Comment, service.Namespace, service.Name)
         IN  IF ~owned
             THEN HandleAnnotations(m, prov, nid, zones, cfg, service)
             ELSE UNION {
                    IF ~zone.ok
                    THEN {Outcome(m, prov, nid, <<ZoneCall(zoneName, FALSE)>>, 0, FALSE)}
                    ELSE UpdateOwned(m, prov, nid, cfg, service, oldDomain, zone.ID,
                                     <<ZoneCall(zoneName, TRUE)>>)
                    : zone \in CheckZoneExists(zoneName, zones) }

\* a faulty update handler that does nothing when the cache holds no record
\* under the old domain
HandleUpdates_IgnoresWithoutOldRecord(m, prov, nid, zones, cfg, service, oldService) ==
    IF ~DNSEnabled(service.Annotations)
    THEN {Outcome(m, prov, nid, <<>>, 0, FALSE)}
    ELSE LET zoneName == Annotation(service.Annotations, "zone")
             domain == Annotation(service.Annotations, "domain")
             oldDomain == Annotation(oldService.Annotations, "domain")
             owned == /\ oldDomain \in DOMAIN m
                      /\ OwnerMatches(m[oldDomain].Comment, service.Namespace, service.Name)
         IN  IF oldDomain \notin DOMAIN m
             THEN {Outcome(m, prov, nid, <<>>, 0, FALSE)}
             ELSE IF ~owned \/ (domain # oldDomain /\ domain \in DOMAIN m)
             THEN HandleAnnotations(m, prov, nid, zones, cfg, service)
             ELSE UNION {
                    IF ~zone.ok
                    THEN {Outcome(m, prov, nid, <<ZoneCall(zoneName, FALSE)>>, 0, FALSE)}
                    ELSE UpdateOwned(m, prov, nid, cfg, service, oldDomain, zone.ID,
                                     <<ZoneCall(zoneName, TRUE)>>)
                    : zone \in CheckZoneExists(zoneName, zones) }

HandleUpdates(m, prov, nid, zones, cfg, service, oldService) ==
    IF ~DNSEnabled(service.Annotations)
    THEN {Outcome(m, prov, nid, <<>>, 0, FALSE)}
    ELSE LET zoneName == Annotation(service.Annotations, "zone")
             domain == Annotation(service.Annotations, "domain")
             oldDomain == Annotation(oldService.Annotations, "domain")
             owned == /\ oldDomain \in DOMAIN m
                      /\ OwnerMatches(m[oldDomain].Comment, service.Namespace, service.Name)
         IN  IF ~owned \/ (domain # oldDomain /\ domain \in DOMAIN m)
             THEN HandleAnnotations(m, prov, nid, zones, cfg, service)
             ELSE UNION {
                    IF ~zone.ok
                    THEN {Outcome(m, prov, nid, <<ZoneCall(zoneName, FALSE)>>, 0, FALSE)}
                    ELSE UpdateOwned(m, prov, nid, cfg, service, oldDomain, zone.ID,
                                     <<ZoneCall(zoneName, TRUE)>>)
                    : zone \in CheckZoneExists(zoneName, zones) }

\* a faulty filter that lets every update through
AnnotationsChanged_Always(new, old) == TRUE

\* UpdateFunc: some greydns.io annotation of the new object differs from the
\* old object's value for that key
AnnotationsChanged(new, old) ==
    \E key \in DOMAIN new : new[key] # Absent /\ new[key] # Annotation(old, key)

(* ------------------------------- state -------------------------------- *)
NoEvent == [kind |-> "none", r |-> NoService, new |-> NoSvc, old |-> NoSvc]

\* no handler run has just ended
NoRun ==
    [kind |-> "none", r |-> NoService, new |-> NoSvc, old |-> NoSvc, ran |-> FALSE,
     pre |-> EmptyMap, post |-> EmptyMap, calls |-> <<>>, notes |-> 0,
     held |-> {}, detached |-> FALSE]

\* no refresh step has just been taken
NoRefresh == [step |-> "none", cache |-> EmptyMap, partial |-> EmptyMap, todo |-> {}]

\* no function is applied on its own
NoUnit == [fn |-> "none", done |-> FALSE, in |-> <<>>, out |-> <<>>]

\* main up to the start of the informer: the zone table and the record cache
\* are read from the provider (a failure there is fatal and nothing runs)
Init ==
    /\ config \in ConfigMaps
    /\ alive = TRUE
    /\ svc = [r \in Services |-> NoSvc]
    /\ provRecords \in InitialBackends
    /\ nextID = FirstFreeID
    /\ zonesToNames = BackendZones
    /\ existingRecords \in RefreshRecordsCache(provRecords, zonesToNames)
    /\ hpc = "idle"
    /\ hev = NoEvent
    /\ hdetached = FALSE
    /\ hmap = EmptyMap
    /\ ractive = FALSE
    /\ rtodo = {}
    /\ racc = EmptyMap
    /\ nEvents = 0
    /\ last = NoRun
    /\ rlast = NoRefresh
    /\ provZones = BackendZones
    /\ unit = NoUnit

\* the informer calls a handler: its arguments are evaluated, the map is the
\* one the global refers to now
Deliver(kind, r, new, old) ==
    /\ hpc' = "called"
    /\ hev' = [kind |-> kind, r |-> r, new |-> new, old |-> old]
    /\ hdetached' = FALSE
    /\ hmap' = EmptyMap
    /\ nEvents' = nEvents + 1
    /\ last' = NoRun
    /\ rlast' = NoRefresh
    /\ UNCHANGED <<provZones, unit>>
    /\ UNCHANGED <<config, alive, provRecords, nextID, zonesToNames, existingRecords,
                   ractive, rtodo, racc>>

AddFunc(r, new) ==
    /\ alive /\ hpc = "idle" /\ nEvents < MaxEvents
    /\ svc[r] = NoSvc
    /\ svc' = [svc EXCEPT ![r] = new]
    /\ Deliver("add", r, new, new)

UpdateFunc(r, new) ==
    /\ alive /\ hpc = "idle" /\ nEvents < MaxEvents
    /\ svc[r] # NoSvc
    /\ svc' = [svc EXCEPT ![r] = new]
    /\ IF AnnotationsChanged(new, svc[r])
       THEN Deliver("update", r, new, svc[r])
       ELSE /\ last' = [NoRun EXCEPT !.kind = "update", !.r = r, !.new = new,
                                     !.old = svc[r], !.pre = existingRecords,
                                     !.post = existingRecords]
            /\ nEvents' = nEvents + 1
            /\ rlast' = NoRefresh
            /\ UNCHANGED <<provZones, unit>>
            /\ UNCHANGED <<config, alive, provRecords, nextID, zonesToNames,
                           existingRecords, hpc, hev, hdetached, hmap, ractive, rtodo,
                           racc>>

DeleteFunc(r) ==
    /\ alive /\ hpc = "idle" /\ nEvents < MaxEvents
    /\ svc[r] # NoSvc
    /\ svc' = [svc EXCEPT ![r] = NoSvc]
    /\ Deliver("delete", r, svc[r], svc[r])

\* the map the running handler works on
HeldMap == IF hdetached THEN hmap ELSE existingRecords

HandlerOutcomes ==
    LET service == Service(hev.r, hev.new)
        oldService == Service(hev.r, hev.old)
    IN  CASE hev.kind = "add" ->
               HandleAnnotations(HeldMap, provRecords, nextID, zonesToNames, config, service)
          [] hev.kind = "update" ->
               HandleUpdates(HeldMap, provRecords, nextID, zonesToNames, config, service,
                             oldService)
          [] hev.kind = "delete" ->
               HandleDeletions(HeldMap, provRecords, nextID, zonesToNames, service)

\* the handler body
HandlerRun ==
    /\ alive /\ hpc = "called"
    /\ \E o \in HandlerOutcomes :
        /\ provRecords' = o.prov
        /\ nextID' = o.nid
        /\ alive' = ~o.fatal
        /\ existingRecords' = IF hdetached THEN existingRecords ELSE o.map
        /\ last' = [kind |-> hev.kind, r |-> hev.r, new |-> hev.new, old |-> hev.old,
                    ran |-> TRUE, pre |-> HeldMap, post |-> o.map, calls |-> o.calls,
                    notes |-> o.notes,
                    held |-> {x.Comment : x \in {y \in provRecords :
                                 y.Name = Annotation(hev.new, "domain")}},
                    detached |-> hdetached]
    /\ hpc' = "idle"
    /\ hev' = NoEvent
    /\ hdetached' = FALSE
    /\ hmap' = EmptyMap
    /\ rlast' = NoRefresh
    /\ UNCHANGED <<config, svc, zonesToNames, ractive, rtodo, racc, nEvents,
                   provZones, unit>>

\* a faulty loop that assigns what the failed refresh had collected
AfterFailedRefresh_Partial(cache, partial) == partial

\* main's refresh loop after RefreshRecordsCache returned an error: the error
\* is logged and existingRecords keeps the map it refers to
AfterFailedRefresh(cache, partial) == cache

\* the refresh goroutine: RefreshRecordsCache lists one zone; the first zone
\* starts a cycle with an empty newExistingRecords; a listing that fails ends
\* the cycle
RefreshGetRecords(z) ==
    /\ alive
    /\ IF ractive THEN z \in rtodo ELSE z \in DOMAIN zonesToNames
    /\ LET acc == IF ractive THEN racc ELSE EmptyMap
           todo == IF ractive THEN rtodo ELSE DOMAIN zonesToNames
       IN  \E g \in GetRecords(provRecords, zonesToNames[z]) :
            IF g.ok
            THEN /\ ractive' = TRUE
                 /\ rtodo' = todo \ {z}
                 /\ racc' = Merge(acc, g.records)
                 /\ rlast' = NoRefresh
                 /\ UNCHANGED <<existingRecords, hdetached, hmap>>
            ELSE /\ ractive' = FALSE
                 /\ rtodo' = {}
                 /\ racc' = EmptyMap
                 /\ existingRecords' = AfterFailedRefresh(existingRecords, acc)
                 /\ hmap' = IF existingRecords' # existingRecords /\ hpc = "called"
                                /\ ~hdetached
                            THEN existingRecords ELSE hmap
                 /\ hdetached' = (hdetached \/
                                  (existingRecords' # existingRecords /\ hpc = "called"))
                 /\ rlast' = [step |-> "failed", cache |-> existingRecords,
                              partial |-> acc, todo |-> todo]
    /\ last' = NoRun
    /\ UNCHANGED <<provZones, unit>>
    /\ UNCHANGED <<config, alive, svc, provRecords, nextID, zonesToNames, hpc, hev,
                   nEvents>>

\* existingRecords = refreshedRecords: a running handler keeps the old map
RefreshAssign ==
    /\ alive /\ ractive /\ rtodo = {}
    /\ existingRecords' = racc
    /\ hmap' = IF hpc = "called" /\ ~hdetached THEN existingRecords ELSE hmap
    /\ hdetached' = (hpc = "called")
    /\ ractive' = FALSE
    /\ racc' = EmptyMap
    /\ last' = NoRun
    /\ rlast' = [step |-> "assigned", cache |-> existingRecords, partial |-> racc,
                 todo |-> rtodo]
    /\ UNCHANGED <<provZones, unit>>
    /\ UNCHANGED <<config, alive, svc, provRecords, nextID, zonesToNames, hpc, hev,
                   rtodo, nEvents>>

Next ==
    \/ \E r \in Services, new \in Snapshots : AddFunc(r, new)
    \/ \E r \in Services, new \in Snapshots : UpdateFunc(r, new)
    \/ \E r \in Services : DeleteFunc(r)
    \/ HandlerRun
    \/ \E z \in DOMAIN BackendZones : RefreshGetRecords(z)
    \/ RefreshAssign

Spec == Init /\ [][Next]_vars

(* --------------------- a zone added at the provider -------------------- *)
\* the zone an operator adds to the account after the controller started
AddedZoneName == "missing.net"
AddedZoneID == "zone789"

\* the account gains the zone while no refresh cycle is in progress and no
\* handler runs; the controller is not told
ZoneAdded ==
    /\ alive /\ ~ractive /\ hpc = "idle"
    /\ AddedZoneName \notin DOMAIN provZones
    /\ provZones' =
         [z \in DOMAIN provZones \cup {AddedZoneName} |->
            IF z = AddedZoneName THEN AddedZoneID ELSE provZones[z]]
    /\ last' = NoRun
    /\ rlast' = NoRefresh
    /\ UNCHANGED <<config, alive, svc, provRecords, nextID, zonesToNames, existingRecords,
                   hpc, hev, hdetached, hmap, ractive, rtodo, racc, nEvents, unit>>

ZoneNext ==
    \/ \E r \in Services, new \in Snapshots : AddFunc(r, new)
    \/ \E r \in Services, new \in Snapshots : UpdateFunc(r, new)
    \/ \E r \in Services : DeleteFunc(r)
    \/ HandlerRun
    \/ \E z \in DOMAIN BackendZones : RefreshGetRecords(z)
    \/ RefreshAssign
    \/ ZoneAdded

ZoneSpec == Init /\ [][ZoneNext]_vars

(* ------------- start-up and provider functions on their own ------------ *)
\* Go's nil error
NoError == ""

\* p.client before Connect
NoClient == [set |-> FALSE, APIToken |-> ""]
\* cloudflare.NewClient(option.WithAPIToken(apiToken))
NewClient(apiToken) == [set |-> TRUE, APIToken |-> apiToken]

\* the source text of the pattern Connect compiles
CommentPatternSource == "^\\[greydns - Do not manually edit].*$"

\* &cfprovider.Provider{}
NewProvider == [isNil |-> FALSE, client |-> NoClient, commentPattern |-> ""]
NilProvider == [isNil |-> TRUE, client |-> NoClient, commentPattern |-> ""]

\* a faulty Connect that refuses an empty token
Connect_RejectsEmptyToken(p, credentials) ==
    IF "cloudflare" \notin DOMAIN credentials \/ credentials["cloudflare"] = ""
    THEN [p |-> p, err |-> "cloudflare API token not found in credentials"]
    ELSE [p |-> [p EXCEPT !.client = NewClient(credentials["cloudflare"]),
                          !.commentPattern = CommentPatternSource],
          err |-> NoError]

\* Provider.Connect: the token is looked up under the key "cloudflare"; only
\* the key's presence is tested
Connect(p, credentials) ==
    IF "cloudflare" \notin DOMAIN credentials
    THEN [p |-> p, err |-> "cloudflare API token not found in credentials"]
    ELSE [p |-> [p EXCEPT !.client = NewClient(credentials["cloudflare"]),
                          !.commentPattern = CommentPatternSource],
          err |-> NoError]

NilManager == [isNil |-> TRUE, provider |-> NilProvider]

\* a faulty NewManager that takes the empty name for the default provider
NewManager_EmptyIsDefault(providerName) ==
    IF providerName \in {"cloudflare", ""}
    THEN [manager |-> [isNil |-> FALSE, provider |-> NewProvider], err |-> NoError]
    ELSE [manager |-> NilManager, err |-> "unsupported provider: " \o providerName]

\* providers.NewManager
NewManager(providerName) ==
    IF providerName = "cloudflare"
    THEN [manager |-> [isNil |-> FALSE, provider |-> NewProvider], err |-> NoError]
    ELSE [manager |-> NilManager, err |-> "unsupported provider: " \o providerName]

\* main: the provider name, "cloudflare" unless the configmap names another
ProviderName(data) ==
    IF "provider" \in DOMAIN data /\ data["provider"] # ""
    THEN data["provider"]
    ELSE "cloudflare"

\* main from the choice of the provider to the connection: an error of
\* NewManager or of Connect is fatal
InitializeProvider(data, secretData) ==
    LET providerName == ProviderName(data)
        made == NewManager(providerName)
        credentials == [key \in DOMAIN secretData |-> secretData[key]]
        connected == Connect(made.manager.provider, credentials)
    IN  IF made.err # NoError
        THEN [providerName |-> providerName, manager |-> made.manager, fatal |-> TRUE]
        ELSE IF connected.err # NoError
        THEN [providerName |-> providerName, manager |-> made.manager, fatal |-> TRUE]
        ELSE [providerName |-> providerName,
              manager |-> [made.manager EXCEPT !.provider = connected.p],
              fatal |-> FALSE]

\* the record the legacy CreateRecord and UpdateRecord hand to the backend:
\* the A record is commented with the service's tag, the CNAME record with the
\* bare prefix
LegacyRecordParam(cfg, name, ingressDestination, ttl, service) ==
    LET recordType == cfg["record-type"]
    IN  CASE recordType = "A" ->
               [ok |-> TRUE, Type |-> "A", Name |-> name, Content |-> ingressDestination,
                TTL |-> ttl,
                Comment |-> Prefix \o service.Namespace \o "/" \o service.Name]
          [] recordType = "CNAME" ->
               [ok |-> TRUE, Type |-> "CNAME", Name |-> name,
                Content |-> ingressDestination, TTL |-> ttl, Comment |-> Prefix]
          [] OTHER ->
               [ok |-> FALSE, Type |-> recordType, Name |-> name,
                Content |-> ingressDestination, TTL |-> ttl, Comment |-> ""]

\* the legacy CreateRecord: the record of Records.New, or an error
LegacyCreateRecord(cfg, nid, name, ingressDestination, ttl, zoneID, service) ==
    LET record == LegacyRecordParam(cfg, name, ingressDestination, ttl, service)
    IN  IF ~record.ok
        THEN {[ok |-> FALSE, rec |-> NoRecord]}
        ELSE {[ok |-> FALSE, rec |-> NoRecord],
              [ok |-> TRUE,
               rec |-> [ID |-> nid, Name |-> record.Name, Type |-> record.Type,
                        Content |-> record.Content, TTL |-> record.TTL,
                        Comment |-> record.Comment, ZoneID |-> zoneID]]}

\* the legacy UpdateRecord: the record of Records.Update, or an error
LegacyUpdateRecord(cfg, recordID, name, ingressDestination, ttl, zoneID, service) ==
    LET record == LegacyRecordParam(cfg, name, ingressDestination, ttl, service)
    IN  IF ~record.ok
        THEN {[ok |-> FALSE, rec |-> NoRecord]}
        ELSE {[ok |-> FALSE, rec |-> NoRecord],
              [ok |-> TRUE,
               rec |-> [ID |-> recordID, Name |-> record.Name, Type |-> record.Type,
                        Content |-> record.Content, TTL |-> record.TTL,
                        Comment |-> record.Comment, ZoneID |-> zoneID]]}

\* the legacy CleanupRecords: every cached record with the service's comment
\* whose name is not the service's domain annotation is deleted at the backend;
\* a failed delete is logged, and the entry leaves the map either way
RECURSIVE LegacyCleanupRecords(_, _, _, _, _)
LegacyCleanupRecords(m, prov, service, name, zoneID) ==
    LET stale == {k \in DOMAIN m :
                    /\ m[k].Comment = Prefix \o service.Namespace \o "/" \o service.Name
                    /\ Annotation(service.Annotations, "domain") # m[k].Name}
    IN  IF stale = {}
        THEN {[map |-> m, prov |-> prov, calls |-> <<>>, logged |-> FALSE]}
        ELSE UNION { UNION {
                {[o EXCEPT !.calls = <<DeleteCall(m[k].ID, zoneID, d.ok)>> \o @,
                           !.logged = @ \/ ~d.ok] :
                    o \in LegacyCleanupRecords(Remove(m, m[k].Name), d.prov, service,
                                               name, zoneID)}
                : d \in DeleteRecord(prov, m[k].ID, zoneID) }
              : k \in stale }

\* records of the backend the cleanup functions are applied over: svc-a's two,
\* one of svc-b, one of a service whose name begins with svc-a's, and the one
\* of the service that is gone
BackendRecordE ==
    [ID |-> 5, Name |-> "www.example.com", Type |-> "A", Content |-> "192.168.1.1",
     TTL |-> 300, Comment |-> Prefix \o "default/svc-b", Zone |-> "zone123"]
BackendRecordF ==
    [ID |-> 6, Name |-> "canary.example.com", Type |-> "A", Content |-> "192.168.1.1",
     TTL |-> 300, Comment |-> Prefix \o "default/svc-a-canary", Zone |-> "zone123"]
CleanupBackend ==
    {InitialRecordA, InitialRecordC, InitialRecordD, BackendRecordE, BackendRecordF}
CleanupCaches ==
    {[n \in {r.Name : r \in S} |->
        ConvertToGenericRecord(CHOOSE r \in S : r.Name = n)] : S \in SUBSET CleanupBackend}

\* one turn of main's refresh loop with no event in between: the map
\* RefreshRecordsCache returns is assigned, or, when a listing failed, the
\* cache stays (the failure may come after any of the listings)
RefreshCycle(cache, prov, zones) ==
    {[ok |-> TRUE, existingRecords |-> refreshedRecords] :
        refreshedRecords \in RefreshRecordsCache(prov, zones)} \cup
    {[ok |-> FALSE, existingRecords |-> AfterFailedRefresh(cache, EmptyMap)]}

\* a tagged record in a zone of the account that the zone table does not hold
BackendRecordG ==
    [ID |-> 7, Name |-> "api.unlisted.io", Type |-> "A", Content |-> "192.168.1.1",
     TTL |-> 300, Comment |-> Prefix \o "default/svc-a", Zone |-> "zone999"]
\* the backends a refresh can meet, and the caches it can replace
RefreshBackends == SUBSET (InitialRecords \cup {BackendRecordE, BackendRecordG})
RefreshCaches ==
    {EmptyMap,
     [n \in {r.Name : r \in {InitialRecordA, InitialRecordC, InitialRecordD}} |->
        ConvertToGenericRecord(
            CHOOSE r \in {InitialRecordA, InitialRecordC, InitialRecordD} : r.Name = n)]}
RefreshInputs == [cache : RefreshCaches, prov : RefreshBackends]

\* the (namespace, name) pairs the tag is built and compared for: names that
\* differ, names one of which begins with the other, the same name in two
\* namespaces
TagNamespaces == {"default", "prod"}
TagNames == {"svc-a", "svc-b", "svc-a-canary"}
TagOwners == [Namespace : TagNamespaces, Name : TagNames]
TagInputs == [a : TagOwners, b : TagOwners]

\* the places that build or compare the tag, run for a record that the create
\* path made for a and a service b that comes upon it: the comment of the
\* create call, the conflict check of HandleAnnotations, the delete check of
\* HandleDeletions, and CleanupRecords called for b with another current domain
TagPaths(a, b, zones) ==
    LET annotations == [dns |-> "true", domain |-> "api.example.com", zone |-> "example.com"]
        zoneID == zones["example.com"]
        params == CreateParams(TestConfig, Service(a, annotations), zoneID, 300)
    IN  UNION { UNION { UNION {
          {[tag |-> params.Comment,
            matches |-> OwnerMatches(c.rec.Comment, b.Namespace, b.Name),
            notes |-> r.notes,
            deleteCalls |-> d.calls,
            cleanupCalls |-> k.calls] :
             k \in CleanupRecords(Put(EmptyMap, "api.example.com", c.rec), c.prov,
                                  b.Namespace, b.Name, zoneID, "www.example.com")}
          : d \in HandleDeletions(Put(EmptyMap, "api.example.com", c.rec), c.prov, c.nid,
                                  zones, Service(b, annotations)) }
          : r \in ReconcileRecord(Put(EmptyMap, "api.example.com", c.rec), c.prov, c.nid,
                                  TestConfig, Service(b, annotations), zoneID, <<>>) }
          : c \in {x \in CreateRecord({}, FirstFreeID, params) : x.ok} }

\* the inputs the functions are applied to
CredentialKeys == {"cloudflare", "route53"}
Tokens == {"", "test-token"}
CredentialMaps == UNION {[K -> Tokens] : K \in SUBSET CredentialKeys}
ProviderNames == {"", "cloudflare", "Cloudflare", "unsupported"}
ProviderData == UNION {[K -> ProviderNames] : K \in SUBSET {"provider"}}
RecordTypes == {"A", "CNAME", "TXT"}
RecordTypeConfigs == {[TestConfig EXCEPT !["record-type"] = t] : t \in RecordTypes}
EnabledServices ==
    {Service(r, [dns |-> "true", domain |-> d, zone |-> "example.com"]) :
        r \in Services, d \in DomainNames}
RecordInputs == [cfg : RecordTypeConfigs, service : EnabledServices]
CleanupInputs == [m : CleanupCaches, service : EnabledServices]

\* the caches a handler is applied to on its own: empty, or holding svc-a's
\* record under api.example.com; and the configurations of every record type
EngineCaches ==
    {EmptyMap, Put(EmptyMap, InitialRecordA.Name, ConvertToGenericRecord(InitialRecordA))}
EngineInputs == [cfg : RecordTypeConfigs, service : EnabledServices, m : EngineCaches]

\* the caches a create event followed by a delete event starts from: empty,
\* holding records under other domains (a stale one of svc-a, one of a service
\* that is gone), or holding api.example.com already
RoundTripCaches ==
    EngineCaches \cup
    {[n \in {InitialRecordC.Name, InitialRecordD.Name} |->
        ConvertToGenericRecord(
            CHOOSE r \in {InitialRecordC, InitialRecordD} : r.Name = n)]}
RoundTripInputs == [cfg : RecordTypeConfigs, service : EnabledServices, m : RoundTripCaches]

UnitInputs ==
    {[fn |-> "Connect", done |-> FALSE, in |-> [credentials |-> c], out |-> <<>>] :
        c \in CredentialMaps} \cup
    {[fn |-> "NewManager", done |-> FALSE, in |-> [providerName |-> n], out |-> <<>>] :
        n \in ProviderNames} \cup
    {[fn |-> "main", done |-> FALSE, in |-> [data |-> d, secretData |-> c], out |-> <<>>] :
        d \in ProviderData, c \in CredentialMaps} \cup
    {[fn |-> f, done |-> FALSE, in |-> i, out |-> <<>>] :
        f \in {"CreateRecord (legacy)", "UpdateRecord (legacy)",
               "Provider.CreateRecord", "Provider.UpdateRecord"},
        i \in RecordInputs} \cup
    {[fn |-> f, done |-> FALSE, in |-> i, out |-> <<>>] :
        f \in {"Provider.CleanupRecords", "CleanupRecords (legacy)"},
        i \in CleanupInputs} \cup
    {[fn |-> "refresh", done |-> FALSE, in |-> i, out |-> <<>>] : i \in RefreshInputs} \cup
    {[fn |-> "ownerMatches", done |-> FALSE, in |-> i, out |-> <<>>] : i \in TagInputs} \cup
    {[fn |-> f, done |-> FALSE, in |-> i, out |-> <<>>] :
        f \in {"HandleAnnotations", "HandleUpdates"}, i \in EngineInputs} \cup
    {[fn |-> "HandleAnnotations, HandleDeletions", done |-> FALSE, in |-> i, out |-> <<>>] :
        i \in RoundTripInputs}

\* the process before the informer and the refresh goroutine start
BeforeInformers ==
    /\ config = TestConfig
    /\ alive = TRUE
    /\ svc = [r \in Services |-> NoSvc]
    /\ provRecords = {InitialRecordA}
    /\ nextID = FirstFreeID
    /\ zonesToNames = BackendZones
    /\ existingRecords = EmptyMap
    /\ hpc = "idle"
    /\ hev = NoEvent
    /\ hdetached = FALSE
    /\ hmap = EmptyMap
    /\ ractive = FALSE
    /\ rtodo = {}
    /\ racc = EmptyMap
    /\ nEvents = 0
    /\ last = NoRun
    /\ rlast = NoRefresh
    /\ provZones = BackendZones

controller ==
    <<config, alive, svc, provRecords, nextID, zonesToNames, existingRecords, hpc, hev,
      hdetached, hmap, ractive, rtodo, racc, nEvents, last, rlast, provZones>>

UnitInit == BeforeInformers /\ unit \in UnitInputs

Apply(fn, out) ==
    /\ unit.fn = fn /\ ~unit.done
    /\ unit' = [unit EXCEPT !.done = TRUE, !.out = out]
    /\ UNCHANGED controller

ApplyConnect ==
    unit.fn = "Connect" /\ Apply("Connect", Connect(NewProvider, unit.in.credentials))

ApplyNewManager ==
    unit.fn = "NewManager" /\ Apply("NewManager", NewManager(unit.in.providerName))

ApplyInitializeProvider ==
    unit.fn = "main"
    /\ Apply("main", InitializeProvider(unit.in.data, unit.in.secretData))

\* the record functions are applied as HandleAnnotations applies them: name
\* the domain annotation, content the ingress destination, the parsed ttl, the
\* zone's id; the update is of the record a former run created
ApplyLegacyCreateRecord ==
    /\ unit.fn = "CreateRecord (legacy)"
    /\ \E o \in LegacyCreateRecord(unit.in.cfg, nextID,
                                   Annotation(unit.in.service.Annotations, "domain"),
                                   IngressDestination,
                                   Atoi(unit.in.cfg["record-ttl"]).value,
                                   zonesToNames["example.com"], unit.in.service) :
        Apply("CreateRecord (legacy)", o)

ApplyLegacyUpdateRecord ==
    /\ unit.fn = "UpdateRecord (legacy)"
    /\ \E o \in LegacyUpdateRecord(unit.in.cfg, InitialRecordA.ID,
                                   Annotation(unit.in.service.Annotations, "domain"),
                                   IngressDestination,
                                   Atoi(unit.in.cfg["record-ttl"]).value,
                                   zonesToNames["example.com"], unit.in.service) :
        Apply("UpdateRecord (legacy)", o)

ApplyCreateRecord ==
    /\ unit.fn = "Provider.CreateRecord"
    /\ \E o \in CreateRecord(provRecords, nextID,
                             CreateParams(unit.in.cfg, unit.in.service,
                                          zonesToNames["example.com"],
                                          Atoi(unit.in.cfg["record-ttl"]).value)) :
        Apply("Provider.CreateRecord",
              [ok |-> o.ok, rec |-> o.rec, backend |-> o.backend, err |-> o.err])

ApplyUpdateRecord ==
    /\ unit.fn = "Provider.UpdateRecord"
    /\ \E o \in UpdateRecord(provRecords,
                             [RecordID |-> InitialRecordA.ID] @@
                             CreateParams(unit.in.cfg, unit.in.service,
                                          zonesToNames["example.com"],
                                          Atoi(unit.in.cfg["record-ttl"]).value)) :
        Apply("Provider.UpdateRecord",
              [ok |-> o.ok, rec |-> o.rec, backend |-> o.backend, err |-> o.err])

\* the cleanup functions are applied with the zone's id and, as current
\* domain, the service's domain annotation
ApplyCleanupRecords ==
    /\ unit.fn = "Provider.CleanupRecords"
    /\ \E o \in CleanupRecords(unit.in.m, CleanupBackend, unit.in.service.Namespace,
                               unit.in.service.Name, zonesToNames["example.com"],
                               Annotation(unit.in.service.Annotations, "domain")) :
        Apply("Provider.CleanupRecords",
              [map |-> o.map, prov |-> o.prov, calls |-> o.calls, err |-> o.err,
               logged |-> o.err])

ApplyLegacyCleanupRecords ==
    /\ unit.fn = "CleanupRecords (legacy)"
    /\ \E o \in LegacyCleanupRecords(unit.in.m, CleanupBackend, unit.in.service,
                                     Annotation(unit.in.service.Annotations, "domain"),
                                     zonesToNames["example.com"]) :
        Apply("CleanupRecords (legacy)",
              [map |-> o.map, prov |-> o.prov, calls |-> o.calls, err |-> FALSE,
               logged |-> o.logged])

ApplyRefreshCycle ==
    /\ unit.fn = "refresh"
    /\ \E o \in RefreshCycle(unit.in.cache, unit.in.prov, zonesToNames) :
        Apply("refresh", o)

ApplyTagPaths ==
    /\ unit.fn = "ownerMatches"
    /\ \E o \in TagPaths(unit.in.a, unit.in.b, zonesToNames) : Apply("ownerMatches", o)

\* a create event, and an update event whose old object had the domain
\* api.example.com, handled under the input's configuration
ApplyHandleAnnotations ==
    /\ unit.fn = "HandleAnnotations"
    /\ \E o \in HandleAnnotations(unit.in.m, provRecords, nextID, zonesToNames,
                                  unit.in.cfg, unit.in.service) :
        Apply("HandleAnnotations", o)

ApplyHandleUpdates ==
    /\ unit.fn = "HandleUpdates"
    /\ \E o \in HandleUpdates(unit.in.m, provRecords, nextID, zonesToNames, unit.in.cfg,
                              unit.in.service,
                              [unit.in.service EXCEPT
                                 !.Annotations.domain = InitialRecordA.Name]) :
        Apply("HandleUpdates", o)

\* a create event of the service and then its delete event, the second on
\* the cache and the backend the first left
ApplyRoundTrip ==
    /\ unit.fn = "HandleAnnotations, HandleDeletions"
    /\ \E c \in HandleAnnotations(unit.in.m, provRecords, nextID, zonesToNames,
                                  unit.in.cfg, unit.in.service) :
        \E d \in HandleDeletions(c.map, c.prov, c.nid, zonesToNames, unit.in.service) :
            Apply("HandleAnnotations, HandleDeletions", [create |-> c, delete |-> d])

UnitNext ==
    \/ ApplyConnect
    \/ ApplyNewManager
    \/ ApplyInitializeProvider
    \/ ApplyLegacyCreateRecord
    \/ ApplyLegacyUpdateRecord
    \/ ApplyCreateRecord
    \/ ApplyUpdateRecord
    \/ ApplyCleanupRecords
    \/ ApplyLegacyCleanupRecords
    \/ ApplyRefreshCycle
    \/ ApplyTagPaths
    \/ ApplyHandleAnnotations
    \/ ApplyHandleUpdates
    \/ ApplyRoundTrip

UnitSpec == UnitInit /\ [][UnitNext]_vars

(* ===================== properties of a handler run ==================== *)
\* what the properties read off the run that just ended
RunTag == Prefix \o last.r.Namespace \o "/" \o last.r.Name
RunDomain == Annotation(last.new, "domain")
RunOldDomain == Annotation(last.old, "domain")
RunEnabled == last.new.dns = "true"
CallsOf(ops) == {i \in DOMAIN last.calls : last.calls[i].op \in ops}
MutationOps == {"createRecord", "updateRecord", "deleteRecord", "cleanupRecords"}
NoMutationCalls == CallsOf(MutationOps) = {}
ZoneResolved == \E i \in CallsOf({"checkZoneExists"}) : last.calls[i].ok
CreateOrUpdateEvent == last.kind \in {"add", "update"}
OtherServiceTags ==
    {Prefix \o o.Namespace \o "/" \o o.Name : o \in Services \ {last.r}}
Conflicted ==
    /\ CreateOrUpdateEvent /\ RunEnabled
    /\ RunDomain \in DOMAIN last.pre
    /\ last.pre[RunDomain].Comment # RunTag
OwnedCurrent ==
    /\ RunDomain \in DOMAIN last.pre
    /\ last.pre[RunDomain].Comment = RunTag
    /\ last.pre[RunDomain].Name = RunDomain
ZoneIDsResolved == {zonesToNames[z] : z \in DOMAIN zonesToNames \cap {last.new.zone}}

\* C1: ownership exclusivity.  In every handler run of a resource R, every
\* updateRecord and deleteRecord call (those of cleanupRecords included) names
\* the id of a cached record whose comment is R's tag, and every cache entry
\* whose comment is not R's tag is still there, unchanged, after the run.
C1_OwnershipExclusivity ==
    last.ran =>
        /\ \A i \in CallsOf({"updateRecord", "deleteRecord"}) :
            /\ \E k \in DOMAIN last.pre : last.pre[k].ID = last.calls[i].RecordID
            /\ \A k \in DOMAIN last.pre :
                last.pre[k].ID = last.calls[i].RecordID => last.pre[k].Comment = RunTag
        /\ \A k \in DOMAIN last.pre :
            last.pre[k].Comment # RunTag =>
                k \in DOMAIN last.post /\ last.post[k] = last.pre[k]

\* a run that deleted or updated a record while the cache held a record of the
\* other service
C1_Witness ==
    /\ last.ran
    /\ \E i \in CallsOf({"updateRecord", "deleteRecord"}) : last.calls[i].ok
    /\ \E k \in DOMAIN last.pre : last.pre[k].Comment \in OtherServiceTags

\* C2: first come, first served.  When a create event of an enabled resource
\* R2 whose zone resolves is reconciled while the backend holds a record for
\* its domain that carries another service's tag (that service reconciled
\* first), R2's run records exactly one DuplicateDomain event and makes no
\* create, update, delete or cleanup call.
C2_FirstComeFirstServed ==
    (/\ last.ran /\ last.kind = "add" /\ RunEnabled /\ ZoneResolved
     /\ last.held \cap OtherServiceTags # {})
        => (last.notes = 1 /\ NoMutationCalls)

\* C3: a resource whose greydns.io/dns annotation is absent or not "true":
\* whatever the event and whatever the cache holds, no call reaches the
\* provider (not even the zone check), nothing is recorded and the cache is
\* as it was.
C3_DisabledIsNoOp ==
    (last.kind # "none" /\ ~RunEnabled) =>
        /\ last.calls = <<>>
        /\ last.notes = 0
        /\ last.post = last.pre

\* a delete event of a resource without the annotation whose domain is cached
\* with its own tag
C3_Witness ==
    /\ last.ran /\ last.kind = "delete"
    /\ last.new.dns = Absent
    /\ RunDomain \in DOMAIN last.pre
    /\ last.pre[RunDomain].Comment = RunTag

\* C4: first claim.  A create or update event of an enabled resource for a
\* domain the cache does not hold, whose provider call (createRecord, or the
\* updateRecord of a rename) succeeds, adds exactly one key to the cache: the
\* domain, with a record of that name carrying the resource's tag; and when
\* the zone resolves, record-ttl parses and the resource has no record to
\* rename, exactly one createRecord call is made.
C4_FirstClaimInserts ==
    (last.ran /\ CreateOrUpdateEvent /\ RunEnabled /\ RunDomain \notin DOMAIN last.pre)
        => /\ (\E i \in CallsOf({"createRecord", "updateRecord"}) : last.calls[i].ok)
                => /\ DOMAIN last.post \ DOMAIN last.pre = {RunDomain}
                   /\ last.post[RunDomain].Name = RunDomain
                   /\ last.post[RunDomain].Comment = RunTag
           /\ (ZoneResolved /\ alive /\ CallsOf({"updateRecord"}) = {})
                => Cardinality(CallsOf({"createRecord"})) = 1
           /\ Cardinality(CallsOf({"createRecord"})) <= 1

\* a create event that created the record of a domain nobody had claimed
C4_Witness ==
    /\ last.ran /\ last.kind = "add" /\ RunEnabled
    /\ RunDomain \notin DOMAIN last.pre
    /\ last.held = {}
    /\ \E i \in CallsOf({"createRecord"}) : last.calls[i].ok
    /\ RunDomain \in DOMAIN last.post

\* C5: conflict.  A create or update event of an enabled resource R whose
\* domain is cached with a tag that is not R's makes no createRecord,
\* updateRecord, deleteRecord or cleanupRecords call and leaves the cache as it
\* was; it records exactly one DuplicateDomain warning when R's zone resolves
\* and none when the zone check fails (the handler returns before the lookup).
C5_ConflictNeverMutates ==
    (last.ran /\ Conflicted) =>
        /\ NoMutationCalls
        /\ last.post = last.pre
        /\ last.notes = (IF ZoneResolved THEN 1 ELSE 0)

\* C5 as stated: the warning is recorded on every such event
C5_ConflictAlwaysWarns ==
    (last.ran /\ Conflicted) =>
        /\ NoMutationCalls
        /\ last.post = last.pre
        /\ last.notes = 1

\* a create event of an enabled resource whose zone resolved and whose domain
\* the other service's cached record holds
C5_Witness ==
    /\ last.ran /\ last.kind = "add" /\ Conflicted /\ ZoneResolved
    /\ last.pre[RunDomain].Comment \in OtherServiceTags
    /\ last.notes = 1

C6_WitnessFiltered ==
    /\ last.kind = "update" /\ ~last.ran /\ last.new = last.old
    /\ RunEnabled /\ OwnedCurrent

C8_OwnerDeleteEvicts ==
    (/\ last.ran /\ last.kind = "delete" /\ RunEnabled /\ ZoneResolved
     /\ RunDomain \in DOMAIN last.pre
     /\ last.pre[RunDomain].Comment = RunTag)
        => /\ Cardinality(CallsOf(MutationOps)) = 1
           /\ \A i \in CallsOf(MutationOps) :
                /\ last.calls[i].op = "deleteRecord"
                /\ last.calls[i].RecordID = last.pre[RunDomain].ID
                /\ last.calls[i].ZoneID \in ZoneIDsResolved
                /\ IF last.calls[i].ok
                   THEN /\ DOMAIN last.post = DOMAIN last.pre \ {RunDomain}
                        /\ \A k \in DOMAIN last.post : last.post[k] = last.pre[k]
                   ELSE last.post = last.pre

\* an owner's delete that succeeded while the cache held other entries
C8_Witness ==
    /\ last.ran /\ last.kind = "delete" /\ RunEnabled
    /\ RunDomain \in DOMAIN last.pre
    /\ last.pre[RunDomain].Comment = RunTag
    /\ \E i \in CallsOf({"deleteRecord"}) : last.calls[i].ok
    /\ DOMAIN last.pre \ {RunDomain} # {}
    /\ RunDomain \notin DOMAIN last.post

\* C9: rename.  An update event of an enabled resource R that changes its
\* domain from D1 to D2, with D1 cached under R's tag, D2 not cached, the zone
\* resolved and record-ttl parsed, makes exactly one updateRecord call, for
\* the id of D1's record and with name D2.  When that call succeeds the cache holds the
\* record under D2 and no longer under D1, and exactly one cleanupRecords call
\* follows for (R, zone, D2); when the cleanup reports no error, no cache
\* entry other than D2 carries R's tag.  When the update fails the cache is
\* unchanged.
C9_Rename ==
    (/\ last.ran /\ last.kind = "update" /\ RunEnabled /\ ZoneResolved /\ alive
     /\ RunOldDomain # RunDomain
     /\ RunOldDomain \in DOMAIN last.pre
     /\ last.pre[RunOldDomain].Comment = RunTag
     /\ RunDomain \notin DOMAIN last.pre)
        => /\ Cardinality(CallsOf({"updateRecord"})) = 1
           /\ CallsOf({"createRecord"}) = {}
           /\ \A i \in CallsOf({"updateRecord"}) :
                /\ last.calls[i].RecordID = last.pre[RunOldDomain].ID
                /\ last.calls[i].Name = RunDomain
                /\ IF last.calls[i].ok
                   THEN /\ RunDomain \in DOMAIN last.post
                        /\ last.post[RunDomain].ID = last.pre[RunOldDomain].ID
                        /\ last.post[RunDomain].Name = RunDomain
                        /\ last.post[RunDomain].Comment = RunTag
                        /\ RunOldDomain \notin DOMAIN last.post
                        /\ Cardinality(CallsOf({"cleanupRecords"})) = 1
                        /\ \A j \in CallsOf({"cleanupRecords"}) :
                            /\ j > i
                            /\ last.calls[j].Name = RunDomain
                            /\ last.calls[j].Namespace = last.r.Namespace
                            /\ last.calls[j].ServiceName = last.r.Name
                            /\ last.calls[j].ok =>
                                \A k \in DOMAIN last.post :
                                    last.post[k].Comment = RunTag => k = RunDomain
                   ELSE /\ last.post = last.pre
                        /\ CallsOf({"cleanupRecords", "deleteRecord"}) = {}

\* a rename that succeeded and whose cleanup deleted another record of the
\* resource
C9_Witness ==
    /\ last.ran /\ last.kind = "update" /\ RunEnabled
    /\ RunOldDomain # RunDomain
    /\ RunOldDomain \in DOMAIN last.pre
    /\ last.pre[RunOldDomain].Comment = RunTag
    /\ \E i \in CallsOf({"updateRecord"}) : last.calls[i].ok
    /\ \E i \in CallsOf({"deleteRecord"}) : last.calls[i].ok
    /\ \E i \in CallsOf({"cleanupRecords"}) : last.calls[i].ok
    /\ RunDomain \in DOMAIN last.post
    /\ RunOldDomain \notin DOMAIN last.post

(* ====================== properties of the refresh ===================== *)
\* C10: a refresh that failed on a zone's listing leaves existingRecords the
\* map it was, whatever the refresh had collected from the zones listed
\* before, and the process is still running; and when the refresh assigns,
\* every zone has been listed and the map assigned is the one collected.
C10_FailedRefreshKeepsCache ==
    /\ rlast.step = "failed" =>
        (existingRecords = rlast.cache /\ alive)
    /\ rlast.step = "assigned" =>
        (rlast.todo = {} /\ existingRecords = rlast.partial)

\* a refresh that failed after it had collected records that differ from a
\* non-empty cache
C10_Witness ==
    /\ rlast.step = "failed"
    /\ rlast.cache # EmptyMap
    /\ rlast.partial # EmptyMap
    /\ rlast.partial # rlast.cache
    /\ existingRecords = rlast.cache

(* ============== properties of the cache against the backend =========== *)
ManagedRecords == {r \in provRecords : CommentPatternMatch(r.Comment)}

\* C11: cache implies provider.  In every state every entry of the record
\* cache is a record the backend holds now: a record with the entry's id and
\* name exists there.
C11_CacheImpliesProvider ==
    \A k \in DOMAIN existingRecords :
        \E r \in provRecords :
            r.ID = existingRecords[k].ID /\ r.Name = existingRecords[k].Name

\* C12: no lost cache mutation.  When a handler run has changed the map it
\* was given (an insert after a successful create, an eviction after a
\* successful delete), the record cache is that changed map when the run
\* ends, so that the next event sees the change.
C12_NoLostCacheMutation ==
    (last.ran /\ last.post # last.pre) => existingRecords = last.post

\* C13: one managed record per name.  The backend never holds two records
\* with the greydns prefix and the same name, and no createRecord call is made
\* for a name under which the backend holds such a record.
C13_OneManagedRecordPerName ==
    /\ \A r1, r2 \in ManagedRecords : r1.Name = r2.Name => r1 = r2
    /\ (last.ran /\ CallsOf({"createRecord"}) # {}) =>
            \A c \in last.held : ~CommentPatternMatch(c)

\* a create or update event that was handled with every provider call
\* succeeding: it got past the zone check, made a mutation call, and no call
\* failed
HandledSuccessfully ==
    /\ last.ran /\ CreateOrUpdateEvent /\ RunEnabled /\ alive
    /\ CallsOf(MutationOps) # {}
    /\ \A i \in DOMAIN last.calls : last.calls[i].ok

\* C14: per-service deduplication.  After a create or update event of R with
\* domain D that was handled with every provider call succeeding, no entry of
\* the record cache under a name other than D carries R's tag.
C14_PerServiceDeduplication ==
    HandledSuccessfully =>
        \A k \in DOMAIN existingRecords :
            existingRecords[k].Comment = RunTag => k = RunDomain

(* ========================= failures in a run ========================== *)
FailedCalls(ops) == {i \in CallsOf(ops) : ~last.calls[i].ok}
ZoneUnresolved ==
    \/ last.new.zone \notin DOMAIN zonesToNames
    \/ FailedCalls({"checkZoneExists"}) # {}

\* C15: zone not found.  A create, update or delete event of an enabled
\* resource whose zone annotation is not in the zone table, or whose zone
\* check fails at the backend, makes no createRecord, updateRecord,
\* deleteRecord or cleanupRecords call, records no event and leaves the cache
\* as it was; the failed zone check is the only call of the run.
C15_ZoneNotFoundAborts ==
    (last.ran /\ RunEnabled /\ ZoneUnresolved) =>
        /\ NoMutationCalls
        /\ last.post = last.pre
        /\ last.notes = 0
        /\ Len(last.calls) = 1
        /\ FailedCalls({"checkZoneExists"}) = {1}

\* a delete event whose zone annotation the table does not hold, for a domain
\* cached with the resource's own tag
C15_Witness ==
    /\ last.ran /\ last.kind = "delete" /\ RunEnabled
    /\ last.new.zone \notin DOMAIN zonesToNames
    /\ RunDomain \in DOMAIN last.pre
    /\ last.pre[RunDomain].Comment = RunTag

\* C16: create failure.  When the createRecord call of a create or update
\* event fails, the process goes on, the cache is exactly as it was, with no
\* entry under the domain, and the run makes no other mutation call.
C16_CreateFailureKeepsCache ==
    (last.ran /\ CreateOrUpdateEvent /\ FailedCalls({"createRecord"}) # {}) =>
        /\ alive
        /\ last.post = last.pre
        /\ RunDomain \notin DOMAIN last.post
        /\ Cardinality(CallsOf(MutationOps)) = 1
        /\ last.notes = 0

\* a create event whose createRecord call failed while the cache held other
\* records
C16_Witness ==
    /\ last.ran /\ last.kind = "add"
    /\ FailedCalls({"createRecord"}) # {}
    /\ last.pre # EmptyMap
    /\ ~last.detached
    /\ existingRecords = last.pre

\* C17: update failure.  When the updateRecord call of an update event fails,
\* the cache is exactly as it was: the record is still under the old domain
\* with its contents, no key was added and none removed, and no cleanup or
\* other mutation call follows.
C17_UpdateFailureKeepsCache ==
    (last.ran /\ last.kind = "update" /\ FailedCalls({"updateRecord"}) # {}) =>
        /\ alive
        /\ RunOldDomain \in DOMAIN last.post
        /\ last.post = last.pre
        /\ Cardinality(CallsOf(MutationOps)) = 1

\* a rename whose updateRecord call failed
C17_Witness ==
    /\ last.ran /\ last.kind = "update"
    /\ FailedCalls({"updateRecord"}) # {}
    /\ RunOldDomain # RunDomain
    /\ RunOldDomain \in DOMAIN last.pre
    /\ last.pre[RunOldDomain].Comment = RunTag
    /\ RunDomain \notin DOMAIN last.pre

\* the event reached the parse of record-ttl and the value does not parse: a
\* create or update event of an enabled resource whose zone resolved and whose
\* domain is not cached, under the configmap with the bad value
UnparseableTTLEncountered ==
    /\ last.ran /\ CreateOrUpdateEvent /\ RunEnabled /\ ZoneResolved
    /\ RunDomain \notin DOMAIN last.pre
    /\ config["record-ttl"] = "5m"

\* C18: unparseable record-ttl.  An event that meets a record-ttl value that
\* is not an integer is skipped: no mutation call, cache unchanged, and the
\* process goes on.
C18_UnparseableTTLSkipsEvent ==
    UnparseableTTLEncountered =>
        /\ NoMutationCalls
        /\ last.post = last.pre
        /\ alive

\* what the rest of the program can do next: a step of the refresh goroutine,
\* an event of another resource
RefreshStep ==
    \/ \E z \in DOMAIN BackendZones : RefreshGetRecords(z)
    \/ RefreshAssign
OtherResourceEvent ==
    \E r \in Services \ {last.r}, new \in Snapshots :
        AddFunc(r, new) \/ UpdateFunc(r, new) \/ DeleteFunc(r)

\* C19: errors are confined to their event.  After a handler run in which a
\* zone check or a provider call failed, the process is running, the informer
\* is free to deliver the next event, the refresh goroutine can take its next
\* step, and an event of another resource can be delivered and reconciled.
C19_ErrorsConfinedToEvent ==
    (last.ran /\ FailedCalls(MutationOps \cup {"checkZoneExists"}) # {}) =>
        /\ alive
        /\ hpc = "idle"
        /\ ENABLED RefreshStep
        /\ nEvents < MaxEvents => ENABLED OtherResourceEvent

\* a run whose createRecord call failed while a refresh was under way and
\* events were still to come
C19_Witness ==
    /\ last.ran
    /\ FailedCalls({"createRecord", "deleteRecord", "updateRecord"}) # {}
    /\ ractive
    /\ nEvents < MaxEvents

\* the Conflicted transition: a create or update event of an enabled resource
\* whose zone resolved and whose domain is cached with another tag
ConflictedTransition ==
    /\ last.ran /\ CreateOrUpdateEvent /\ RunEnabled /\ ZoneResolved
    /\ RunDomain \in DOMAIN last.pre
    /\ last.pre[RunDomain].Comment # RunTag

\* C20: the DuplicateDomain event is recorded exactly when the Conflicted
\* transition fires: once by such an event, and not at all by any other
\* event (delete events, a matching tag, no cache entry, a failed zone check,
\* a disabled resource, an update the filter dropped).
C20_NotificationExactlyOnConflict ==
    last.kind # "none" =>
        last.notes = (IF ConflictedTransition THEN 1 ELSE 0)

\* an update event that turned DNS on for a domain the other service's record
\* holds, and recorded the event
C20_Witness ==
    /\ last.kind = "update" /\ ConflictedTransition
    /\ last.pre[RunDomain].Comment \in OtherServiceTags
    /\ last.notes = 1

\* C21: an update event is reconciled exactly when the old and the new
\* object differ in some greydns.io annotation (added, changed or removed):
\* then HandleUpdates runs; when they carry the same annotations (a resync)
\* nothing is reconciled and the provider is not called.
C21_UpdateReconciledOnAnyDifference ==
    (last.kind = "update" /\ alive) =>
        /\ (last.new # last.old) => last.ran
        /\ (last.new = last.old) => (~last.ran /\ last.calls = <<>>)

\* the resync half of C21 alone, which the filter does satisfy
C21_ResyncIsDropped ==
    (last.kind = "update" /\ last.new = last.old) =>
        (~last.ran /\ last.calls = <<>> /\ last.post = last.pre)

\* an update that removed the dns annotation of a service whose record is
\* cached, and was dropped by the filter
C21_RemovedAnnotationDropped ==
    /\ last.kind = "update" /\ ~last.ran
    /\ last.old.dns = "true" /\ last.new.dns = Absent
    /\ last.old.domain \in DOMAIN existingRecords

C27_ForeignOldDomainUntouched ==
    (/\ last.ran /\ last.kind = "update"
     /\ RunOldDomain \in DOMAIN last.pre
     /\ last.pre[RunOldDomain].Comment # RunTag)
        => /\ \A i \in CallsOf({"updateRecord", "deleteRecord"}) :
                last.calls[i].RecordID # last.pre[RunOldDomain].ID
           /\ RunOldDomain \in DOMAIN last.post
           /\ last.post[RunOldDomain] = last.pre[RunOldDomain]

\* a service that was refused a domain the other service's record holds
\* changed its domain annotation, and the update event created its record
\* under the new domain
C27_Witness ==
    /\ last.ran /\ last.kind = "update" /\ RunEnabled
    /\ last.old.dns = "true"
    /\ RunOldDomain # RunDomain
    /\ RunOldDomain \in DOMAIN last.pre
    /\ last.pre[RunOldDomain].Comment \in OtherServiceTags
    /\ \E i \in CallsOf({"createRecord"}) : last.calls[i].ok
    /\ RunOldDomain \in DOMAIN last.post

HasTagPrefix(comment) ==
    Len(comment) >= Len(Prefix) /\ SubSeq(comment, 1, Len(Prefix)) = Prefix

\* C29: every entry of the record cache, of the map a running handler holds,
\* and of the map a refresh cycle is collecting carries a comment that begins
\* with '[greydns - Do not manually edit]': the listing admits no other
\* record, and every entry a create or update event inserts carries the
\* service's tag.
C29_CacheCommentsMatchPattern ==
    /\ \A k \in DOMAIN existingRecords : HasTagPrefix(existingRecords[k].Comment)
    /\ \A k \in DOMAIN hmap : HasTagPrefix(hmap[k].Comment)
    /\ \A k \in DOMAIN racc : HasTagPrefix(racc[k].Comment)
    /\ \A k \in DOMAIN last.post : HasTagPrefix(last.post[k].Comment)

\* a refresh cycle replaced the cache while the backend held a record made by
\* hand: the cache holds a record an event created and not the hand-made one
C29_Witness ==
    /\ rlast.step = "assigned"
    /\ \E r \in provRecords :
        ~HasTagPrefix(r.Comment) /\ r.Name \notin DOMAIN existingRecords
    /\ \E k \in DOMAIN existingRecords : existingRecords[k].ID >= FirstFreeID

(* ============== properties of the functions applied alone ============== *)
\* C25: Connect on a fresh provider succeeds exactly when the credentials
\* hold the key "cloudflare", whatever its value, the empty string included,
\* and then the provider holds a client made with that value and the comment
\* pattern; when the key is absent Connect returns the error 'cloudflare API
\* token not found in credentials' and the provider is as it was, without a
\* client.
C25_ConnectIffCloudflareKey ==
    (unit.fn = "Connect" /\ unit.done) =>
        IF "cloudflare" \in DOMAIN unit.in.credentials
        THEN /\ unit.out.err = NoError
             /\ unit.out.p.client.set
             /\ unit.out.p.client.APIToken = unit.in.credentials["cloudflare"]
             /\ unit.out.p.commentPattern # ""
        ELSE /\ unit.out.err = "cloudflare API token not found in credentials"
             /\ unit.out.p = NewProvider
             /\ ~unit.out.p.client.set

\* Connect succeeded on credentials whose cloudflare token is the empty string
C25_Witness ==
    /\ unit.fn = "Connect" /\ unit.done
    /\ "cloudflare" \in DOMAIN unit.in.credentials
    /\ unit.in.credentials["cloudflare"] = ""
    /\ unit.out.err = NoError
    /\ unit.out.p.client.set

\* Connect failed on credentials that hold another key only
C25_WitnessAbsent ==
    /\ unit.fn = "Connect" /\ unit.done
    /\ DOMAIN unit.in.credentials = {"route53"}
    /\ unit.out.err # NoError
    /\ ~unit.out.p.client.set

\* C26: NewManager returns a manager with a provider, and no error, for the
\* name "cloudflare" only; for every other name, the empty string included,
\* it returns the nil manager and the error 'unsupported provider: <name>'.
\* At start-up a configmap without the provider key, or with an empty value
\* for it, selects "cloudflare", and the manager is made.
C26_OnlyCloudflareIsSupported ==
    /\ (unit.fn = "NewManager" /\ unit.done) =>
        IF unit.in.providerName = "cloudflare"
        THEN /\ unit.out.err = NoError
             /\ ~unit.out.manager.isNil
             /\ ~unit.out.manager.provider.isNil
        ELSE /\ unit.out.err = "unsupported provider: " \o unit.in.providerName
             /\ unit.out.manager.isNil
    /\ (/\ unit.fn = "main" /\ unit.done
        /\ \/ "provider" \notin DOMAIN unit.in.data
           \/ unit.in.data["provider"] = "")
        => /\ unit.out.providerName = "cloudflare"
           /\ ~unit.out.manager.isNil
           /\ ~unit.out.manager.provider.isNil
    /\ (/\ unit.fn = "main" /\ unit.done
        /\ "provider" \in DOMAIN unit.in.data
        /\ unit.in.data["provider"] \notin {"", "cloudflare"})
        => /\ unit.out.fatal
           /\ unit.out.manager.isNil

\* NewManager refused the empty name
C26_Witness ==
    /\ unit.fn = "NewManager" /\ unit.done
    /\ unit.in.providerName = ""
    /\ unit.out.manager.isNil
    /\ unit.out.err = "unsupported provider: "

\* start-up with an empty provider value selected cloudflare and connected
C26_WitnessDefault ==
    /\ unit.fn = "main" /\ unit.done
    /\ "provider" \in DOMAIN unit.in.data /\ unit.in.data["provider"] = ""
    /\ unit.out.providerName = "cloudflare"
    /\ ~unit.out.fatal
    /\ unit.out.manager.provider.client.set

\* the tag of the service a record function was applied for
UnitTag == Prefix \o unit.in.service.Namespace \o "/" \o unit.in.service.Name
RecordFunctions ==
    {"CreateRecord (legacy)", "UpdateRecord (legacy)",
     "Provider.CreateRecord", "Provider.UpdateRecord"}

\* C30: every record a create or update function returns for a service R
\* carries the comment '[greydns - Do not manually edit]' + R.namespace + '/' +
\* R.name, whatever supported record type is configured, so that R's own tag
\* comparison recognises it.
C30_EveryRecordCarriesTheTag ==
    (unit.fn \in RecordFunctions /\ unit.done /\ unit.out.ok) =>
        /\ unit.out.rec.Comment = UnitTag
        /\ unit.out.rec.Comment =
               "[greydns - Do not manually edit]" \o unit.in.service.Namespace
                   \o "/" \o unit.in.service.Name

\* the part of C30 that holds: the functions of the provider interface carry
\* the comment of the parameters, the service's tag, for A and CNAME alike,
\* and the legacy functions do for A
C30_TagCarriedExceptLegacyCNAME ==
    (/\ unit.fn \in RecordFunctions /\ unit.done /\ unit.out.ok
     /\ \/ unit.fn \in {"Provider.CreateRecord", "Provider.UpdateRecord"}
        \/ unit.in.cfg["record-type"] = "A")
        => unit.out.rec.Comment = UnitTag

\* the legacy CreateRecord returned a CNAME record whose comment is the bare
\* prefix
C30_LegacyCNAMEBarePrefix ==
    /\ unit.fn = "CreateRecord (legacy)" /\ unit.done /\ unit.out.ok
    /\ unit.in.cfg["record-type"] = "CNAME"
    /\ unit.out.rec.Comment = Prefix
    /\ unit.out.rec.Comment # UnitTag

(* ==================== properties of the zone table ===================== *)
\* C22: the zone table is refreshed with the record cache: when a refresh
\* cycle has just replaced the cache, the table holds the zones the provider
\* lists, so that a zone added at the provider before the cycle began (and
\* after start-up) resolves from then on.
C22_ZoneTableRefreshedWithCache ==
    rlast.step = "assigned" => zonesToNames = provZones

\* what the code does instead: the table read at start-up is never replaced
C22_ZoneTableIsTheStartupListing ==
    zonesToNames = BackendZones

\* a refresh cycle that began after the zone was added replaced the cache and
\* left the zone out of the table
C22_AddedZoneNotInTable ==
    /\ rlast.step = "assigned"
    /\ AddedZoneName \in DOMAIN provZones
    /\ AddedZoneName \notin DOMAIN zonesToNames

\* an event of a service in the added zone found the zone unresolvable
C22_AddedZoneUnresolvable ==
    /\ last.ran /\ RunEnabled
    /\ last.new.zone = AddedZoneName
    /\ AddedZoneName \in DOMAIN provZones
    /\ \E i \in CallsOf({"checkZoneExists"}) : ~last.calls[i].ok
    /\ NoMutationCalls

(* ================= further properties of a handler run ================= *)
\* C31: every createRecord call of a create or update event of an enabled
\* resource carries name = the domain annotation, type = the configured
\* record-type, content = the ingress destination, ttl = the configured
\* record-ttl as an integer, comment = the resource's tag, and zoneID = the id
\* the zone table gives for the zone annotation.
C31_CreateCallParameters ==
    (last.ran /\ CreateOrUpdateEvent /\ RunEnabled) =>
        \A i \in CallsOf({"createRecord"}) :
            /\ last.calls[i].Name = RunDomain
            /\ last.calls[i].Type = config["record-type"]
            /\ last.calls[i].Content = IngressDestination
            /\ config["record-ttl"] = "300" /\ last.calls[i].TTL = 300
            /\ last.calls[i].Comment = RunTag
            /\ last.new.zone \in DOMAIN zonesToNames
            /\ last.calls[i].ZoneID = zonesToNames[last.new.zone]

\* a create event claimed a domain nobody held, with one createRecord call
\* that succeeded
C31_Witness ==
    /\ last.ran /\ last.kind = "add" /\ RunEnabled
    /\ RunDomain \notin DOMAIN last.pre
    /\ Cardinality(CallsOf({"createRecord"})) = 1
    /\ \E i \in CallsOf({"createRecord"}) :
        last.calls[i].ok /\ last.calls[i].ZoneID = "zone123"

(* ================ properties of the cleanup functions ================== *)
CleanupFunctions == {"Provider.CleanupRecords", "CleanupRecords (legacy)"}
\* the delete calls a cleanup made that failed, and those that succeeded
UnitFailedDeletes == {i \in DOMAIN unit.out.calls : ~unit.out.calls[i].ok}
UnitDeletes == {i \in DOMAIN unit.out.calls : unit.out.calls[i].ok}
UnitCurrentDomain == Annotation(unit.in.service.Annotations, "domain")

\* C32: a cleanup removes a cache entry only when the provider delete of that
\* record succeeded: every entry that left the map was deleted by a call that
\* succeeded, the entry of a record whose delete failed is still in the map,
\* unchanged, and the failure is reported.
C32_CleanupEvictsOnlyAfterDelete ==
    (unit.fn \in CleanupFunctions /\ unit.done) =>
        /\ \A k \in DOMAIN unit.in.m \ DOMAIN unit.out.map :
            \E i \in UnitDeletes : unit.out.calls[i].RecordID = unit.in.m[k].ID
        /\ \A i \in UnitFailedDeletes :
            \E k \in DOMAIN unit.out.map :
                /\ unit.out.map[k].ID = unit.out.calls[i].RecordID
                /\ unit.out.map[k] = unit.in.m[k]
        /\ UnitFailedDeletes # {} => unit.out.logged

\* the part of C32 that holds: Provider.CleanupRecords, which also returns the
\* error and stops at the first failure
C32_ProviderCleanupEvictsOnlyAfterDelete ==
    (unit.fn = "Provider.CleanupRecords" /\ unit.done) =>
        /\ \A k \in DOMAIN unit.in.m \ DOMAIN unit.out.map :
            \E i \in UnitDeletes : unit.out.calls[i].RecordID = unit.in.m[k].ID
        /\ \A i \in UnitFailedDeletes :
            \E k \in DOMAIN unit.out.map :
                /\ unit.out.map[k].ID = unit.out.calls[i].RecordID
                /\ unit.out.map[k] = unit.in.m[k]
        /\ unit.out.err = (UnitFailedDeletes # {})
        /\ Cardinality(UnitFailedDeletes) <= 1
        /\ \A i \in UnitFailedDeletes : i = Len(unit.out.calls)

\* the legacy cleanup dropped the entry of a record whose delete had failed
C32_LegacyEvictedAfterFailedDelete ==
    /\ unit.fn = "CleanupRecords (legacy)" /\ unit.done
    /\ \E i \in UnitFailedDeletes :
        \A k \in DOMAIN unit.out.map : unit.out.map[k].ID # unit.out.calls[i].RecordID
    /\ \E r \in unit.out.prov : r.Name \in DOMAIN unit.in.m \ DOMAIN unit.out.map

\* C33: Provider.CleanupRecords for (namespace, serviceName, currentDomain)
\* leaves in the map, unchanged, and makes no delete call for, every entry
\* whose comment is not exactly the service's tag (one that only begins with
\* the tag included) and the entry named currentDomain; it adds no entry; and
\* when no delete failed, no entry with the service's tag and another name
\* than currentDomain is left.
C33_CleanupFrame ==
    (unit.fn = "Provider.CleanupRecords" /\ unit.done) =>
        /\ \A k \in DOMAIN unit.in.m :
            (unit.in.m[k].Comment # UnitTag \/ unit.in.m[k].Name = UnitCurrentDomain)
                => /\ k \in DOMAIN unit.out.map
                   /\ unit.out.map[k] = unit.in.m[k]
                   /\ \A i \in DOMAIN unit.out.calls :
                        unit.out.calls[i].RecordID # unit.in.m[k].ID
        /\ DOMAIN unit.out.map \subseteq DOMAIN unit.in.m
        /\ ~unit.out.err =>
             \A k \in DOMAIN unit.out.map :
                ~(unit.out.map[k].Comment = UnitTag
                  /\ unit.out.map[k].Name # UnitCurrentDomain)

\* a cleanup for svc-a deleted svc-a's stale record and left the current one,
\* svc-b's and the one whose comment only begins with svc-a's tag
C33_Witness ==
    /\ unit.fn = "Provider.CleanupRecords" /\ unit.done
    /\ ~unit.out.err
    /\ Cardinality(UnitDeletes) = 1
    /\ DOMAIN unit.in.m \ DOMAIN unit.out.map = {"old.example.com"}
    /\ {UnitCurrentDomain, "www.example.com", "canary.example.com"}
           \subseteq DOMAIN unit.out.map
    /\ unit.out.map[UnitCurrentDomain].Comment = UnitTag

\* C34: a delete event of the owning resource whose deleteRecord call fails
\* leaves the cache as it was, the entry of the domain included, and makes no
\* provider call after the failed one: the event's calls are the zone check
\* and that one deleteRecord.
C34_DeleteFailureKeepsCache ==
    (last.ran /\ last.kind = "delete" /\ FailedCalls({"deleteRecord"}) # {}) =>
        /\ last.post = last.pre
        /\ RunDomain \in DOMAIN last.post
        /\ last.post[RunDomain].Comment = RunTag
        /\ Len(last.calls) = 2
        /\ last.calls[1].op = "checkZoneExists" /\ last.calls[1].ok
        /\ last.calls[2].op = "deleteRecord" /\ ~last.calls[2].ok
        /\ last.calls[2].RecordID = last.pre[RunDomain].ID
        /\ ~last.detached => existingRecords = last.pre

\* the delete event of the service that owns the cached record of its domain
\* met a failing deleteRecord
C34_Witness ==
    /\ last.ran /\ last.kind = "delete" /\ RunEnabled
    /\ RunDomain \in DOMAIN last.pre /\ last.pre[RunDomain].Comment = RunTag
    /\ FailedCalls({"deleteRecord"}) # {}
    /\ ~last.detached
    /\ RunDomain \in DOMAIN existingRecords

\* the calls of a run that are made with one of the operations
CallsIn(calls, ops) == {i \in DOMAIN calls : calls[i].op \in ops}

\* C35: no retry.  A handler run makes at most one createRecord or
\* updateRecord call (never both) and names no record id in more than one
\* deleteRecord call; a delete event makes at most one deleteRecord call, and
\* the deleteRecord calls of other events are those of the one cleanup pass.
\* Provider calls are made by no step but the run of an event the informer
\* delivered, once per delivery, and an update event is delivered only when
\* an annotation of the new object differs from the old object's: a failed
\* call is not made again by a later step, a resync included.
C35_NoRetry ==
    [][/\ last'.ran =>
            LET calls == last'.calls
                deletes == CallsIn(calls, {"deleteRecord"})
            IN  /\ Cardinality(CallsIn(calls, {"createRecord", "updateRecord"})) <= 1
                /\ \A i, j \in deletes :
                     calls[i].RecordID = calls[j].RecordID => i = j
                /\ last'.kind = "delete" => Cardinality(deletes) <= 1
                /\ last'.kind # "delete" =>
                     /\ Cardinality(CallsIn(calls, {"cleanupRecords"})) <= 1
                     /\ \A i \in deletes :
                          \E j \in CallsIn(calls, {"cleanupRecords"}) : j < i
       /\ (last'.calls # <<>> \/ provRecords' # provRecords) =>
            /\ hpc = "called" /\ hpc' = "idle"
            /\ last'.kind = hev.kind /\ last'.r = hev.r /\ last'.new = hev.new
            /\ hev' = NoEvent
            /\ hev.kind = "update" => hev.new # hev.old
       /\ (hpc = "idle" /\ hpc' = "called") => nEvents' = nEvents + 1
      ]_vars

\* a create event whose createRecord call failed has ended: nothing is pending
\* and the record is neither cached nor at the backend
C35_Witness ==
    /\ last.ran /\ last.kind = "add"
    /\ FailedCalls({"createRecord"}) # {}
    /\ hpc = "idle" /\ hev = NoEvent
    /\ RunDomain \notin DOMAIN existingRecords
    /\ \A r \in provRecords : r.Name # RunDomain

\* a resync of an enabled service whose record is missing was dropped without
\* a call
C35_WitnessResync ==
    /\ last.kind = "update" /\ ~last.ran /\ last.new = last.old
    /\ RunEnabled /\ last.new.zone \in DOMAIN zonesToNames
    /\ RunDomain \notin DOMAIN existingRecords
    /\ \A r \in provRecords : r.Name # RunDomain
    /\ last.calls = <<>>

(* ================== properties of a refresh on its own ================= *)
\* the records of the backend a refresh is to find: in a zone of the zone
\* table, with a comment that begins with the prefix
UnitTaggedRecords ==
    {r \in unit.in.prov :
        /\ HasTagPrefix(r.Comment)
        /\ \E z \in DOMAIN zonesToNames : zonesToNames[z] = r.Zone}

\* C36: a refresh that succeeded, with no event in between, replaces the
\* cache wholesale: the keys of the new cache are exactly the names of the
\* backend's records, in the zones of the zone table, whose comment matches
\* the pattern, each entry is such a record's, and nothing of the old cache
\* stays that the backend no longer holds.
C36_RefreshReplacesWholesale ==
    (unit.fn = "refresh" /\ unit.done /\ unit.out.ok) =>
        /\ DOMAIN unit.out.existingRecords = {r.Name : r \in UnitTaggedRecords}
        /\ \A n \in DOMAIN unit.out.existingRecords :
            \E r \in UnitTaggedRecords :
                /\ r.Name = n
                /\ unit.out.existingRecords[n].ID = r.ID
                /\ unit.out.existingRecords[n].Comment = r.Comment
                /\ unit.out.existingRecords[n].Content = r.Content

\* a refresh dropped a cached record that had been removed at the backend,
\* took in a tagged record that had been added there, and left out the record
\* made by hand and the one in a zone the table does not hold
C36_Witness ==
    /\ unit.fn = "refresh" /\ unit.done /\ unit.out.ok
    /\ "old.example.com" \in DOMAIN unit.in.cache \ DOMAIN unit.out.existingRecords
    /\ "www.example.com" \in DOMAIN unit.out.existingRecords \ DOMAIN unit.in.cache
    /\ InitialRecordB \in unit.in.prov /\ BackendRecordG \in unit.in.prov
    /\ InitialRecordB.Name \notin DOMAIN unit.out.existingRecords
    /\ BackendRecordG.Name \notin DOMAIN unit.out.existingRecords

(* ===================== properties of the ownership tag ================= *)
\* C37: the tag is consistent.  For (namespace, name) pairs A and B of valid
\* names, the tag built for A matches B exactly when A = B; and the create
\* path, the conflict check, the delete check and the cleanup agree on it: a
\* record created for A carries the prefix followed by A's namespace, "/" and
\* name, B's create event on it reports a conflict exactly when B is not A,
\* B's delete event (once its zone is resolved) deletes it exactly when B is A,
\* and a cleanup for B deletes it exactly when B is A.
C37_TagConsistency ==
    (unit.fn = "ownerMatches" /\ unit.done) =>
        /\ unit.out.tag = Prefix \o unit.in.a.Namespace \o "/" \o unit.in.a.Name
        /\ unit.out.matches <=> unit.in.a = unit.in.b
        /\ unit.out.notes = 1 <=> unit.in.a # unit.in.b
        /\ CallsIn(unit.out.deleteCalls, {"deleteRecord"}) # {} =>
                unit.in.a = unit.in.b
        /\ (\E i \in CallsIn(unit.out.deleteCalls, {"checkZoneExists"}) :
                unit.out.deleteCalls[i].ok) =>
                (CallsIn(unit.out.deleteCalls, {"deleteRecord"}) # {} <=>
                    unit.in.a = unit.in.b)
        /\ CallsIn(unit.out.cleanupCalls, {"deleteRecord"}) # {} <=> unit.in.a = unit.in.b

\* the record of default/svc-a met by default/svc-a-canary, whose tag begins
\* with the record's: a conflict, and neither handler nor cleanup deletes it
C37_Witness ==
    /\ unit.fn = "ownerMatches" /\ unit.done
    /\ unit.in.a = [Namespace |-> "default", Name |-> "svc-a"]
    /\ unit.in.b = [Namespace |-> "default", Name |-> "svc-a-canary"]
    /\ ~unit.out.matches /\ unit.out.notes = 1
    /\ CallsIn(unit.out.deleteCalls, {"deleteRecord"}) = {}
    /\ unit.out.cleanupCalls = <<>>

\* the record met by its owner: no conflict, and both delete it
C37_WitnessOwner ==
    /\ unit.fn = "ownerMatches" /\ unit.done
    /\ unit.in.a = unit.in.b
    /\ unit.out.matches /\ unit.out.notes = 0
    /\ CallsIn(unit.out.deleteCalls, {"deleteRecord"}) # {}
    /\ CallsIn(unit.out.cleanupCalls, {"deleteRecord"}) # {}

(* ================= properties of unsupported record types ============== *)
UnitRecordType == unit.in.cfg["record-type"]

\* C38: createRecord and updateRecord asked for a record type other than A or
\* CNAME fail with the provider error "Invalid record type" before any call is
\* made on the backend; and a handler that runs under such a configuration
\* puts nothing into the cache: every createRecord and updateRecord call it
\* makes fails, the backend is as it was, and the cache holds no entry it did
\* not hold before, none of them changed.
C38_UnsupportedTypeFailsEarly ==
    /\ ( /\ unit.fn \in {"Provider.CreateRecord", "Provider.UpdateRecord"}
         /\ unit.done
         /\ UnitRecordType \notin {"A", "CNAME"} ) =>
            /\ ~unit.out.ok
            /\ unit.out.backend = 0
            /\ unit.out.err = "Invalid record type: " \o UnitRecordType
            /\ unit.out.rec = NoRecord
    /\ ( /\ unit.fn \in {"HandleAnnotations", "HandleUpdates"}
         /\ unit.done
         /\ UnitRecordType \notin {"A", "CNAME"} ) =>
            /\ \A i \in CallsIn(unit.out.calls, {"createRecord", "updateRecord"}) :
                ~unit.out.calls[i].ok
            /\ unit.out.prov = provRecords
            /\ \A k \in DOMAIN unit.out.map :
                k \in DOMAIN unit.in.m /\ unit.out.map[k] = unit.in.m[k]

\* createRecord was asked for a TXT record and failed without a backend call
C38_Witness ==
    /\ unit.fn = "Provider.CreateRecord" /\ unit.done
    /\ UnitRecordType = "TXT"
    /\ ~unit.out.ok /\ unit.out.backend = 0

\* the same for updateRecord
C38_WitnessUpdate ==
    /\ unit.fn = "Provider.UpdateRecord" /\ unit.done
    /\ UnitRecordType = "TXT"
    /\ ~unit.out.ok /\ unit.out.backend = 0

\* a create event under a TXT configuration made its createRecord call and
\* left the cache without the domain; an update event made its updateRecord
\* call and left the entry under the old domain
C38_WitnessCreateEvent ==
    /\ unit.fn = "HandleAnnotations" /\ unit.done
    /\ UnitRecordType = "TXT"
    /\ CallsIn(unit.out.calls, {"createRecord"}) # {}
    /\ unit.out.map = unit.in.m
C38_WitnessUpdateEvent ==
    /\ unit.fn = "HandleUpdates" /\ unit.done
    /\ UnitRecordType = "TXT"
    /\ CallsIn(unit.out.calls, {"updateRecord"}) # {}
    /\ unit.out.map = unit.in.m
    /\ InitialRecordA.Name \in DOMAIN unit.out.map

(* ================= properties of a create/delete round trip ============ *)
\* the calls of both events in order, and those of them that failed
RoundTripCalls == unit.out.create.calls \o unit.out.delete.calls
RoundTripCreated ==
    \E i \in CallsIn(unit.out.create.calls, {"createRecord"}) : unit.out.create.calls[i].ok
RoundTripNoFailure == \A i \in DOMAIN RoundTripCalls : RoundTripCalls[i].ok

\* C39: create/delete round trip.  From a cache without the domain D, a create
\* event of R for D that succeeded, followed by a delete event of R for D in
\* which no call failed, leaves the cache equal to the cache before the create
\* event and the backend as it was; the two events make exactly one
\* createRecord and one deleteRecord call, and the delete names the id of the
\* record the create returned, in the zone it was created in.
C39_CreateDeleteRoundTrip ==
    ( /\ unit.fn = "HandleAnnotations, HandleDeletions" /\ unit.done
      /\ UnitCurrentDomain \notin DOMAIN unit.in.m
      /\ RoundTripCreated
      /\ RoundTripNoFailure ) =>
        /\ UnitCurrentDomain \in DOMAIN unit.out.create.map
        /\ unit.out.delete.map = unit.in.m
        /\ unit.out.delete.prov = provRecords
        /\ Cardinality(CallsIn(RoundTripCalls, {"createRecord"})) = 1
        /\ Cardinality(CallsIn(RoundTripCalls, {"deleteRecord"})) = 1
        /\ CallsIn(RoundTripCalls, {"updateRecord", "cleanupRecords"}) = {}
        /\ \A i \in CallsIn(unit.out.delete.calls, {"deleteRecord"}) :
            /\ unit.out.delete.calls[i].RecordID =
                    unit.out.create.map[UnitCurrentDomain].ID
            /\ \E r \in unit.out.create.prov \ provRecords :
                /\ r.ID = unit.out.delete.calls[i].RecordID
                /\ r.Zone = unit.out.delete.calls[i].ZoneID

\* a round trip from a cache that held two other records: both are still
\* there, the domain is gone again, one create and one delete were made
C39_Witness ==
    /\ unit.fn = "HandleAnnotations, HandleDeletions" /\ unit.done
    /\ DOMAIN unit.in.m = {InitialRecordC.Name, InitialRecordD.Name}
    /\ RoundTripCreated /\ RoundTripNoFailure
    /\ UnitCurrentDomain \in DOMAIN unit.out.create.map
    /\ unit.out.delete.map = unit.in.m
    /\ Cardinality(CallsIn(RoundTripCalls, {"deleteRecord"})) = 1

(* ================== properties of the entries' zone id ================= *)
\* C40: every cache entry records the id of the zone its record lives in: the
\* zoneID of an entry is not empty and is the zone of the backend's record
\* with the entry's id.
C40_CacheEntriesCarryZoneID ==
    \A k \in DOMAIN existingRecords :
        /\ existingRecords[k].ZoneID # ""
        /\ \A r \in provRecords :
            r.ID = existingRecords[k].ID => existingRecords[k].ZoneID = r.Zone

\* what the provider's conversion gives instead: no entry of the cache has a
\* zone id
C40_CacheEntriesWithoutZoneID ==
    \A k \in DOMAIN existingRecords : existingRecords[k].ZoneID = ""

\* a create event whose createRecord call named zone123 and succeeded put an
\* entry with an empty zone id into the cache
C40_CreatedEntryWithoutZoneID ==
    /\ last.ran /\ last.kind = "add"
    /\ \E i \in CallsIn(last.calls, {"createRecord"}) :
        /\ last.calls[i].ok
        /\ last.calls[i].ZoneID = "zone123"
        /\ last.calls[i].Name \in DOMAIN last.post
        /\ last.post[last.calls[i].Name].ZoneID = ""

====
